---- MODULE Spec2Model ----
(***************************************************************************)
(* Model of the Elasticsearch mapping service (LRUCache, debounce,         *)
(* MappingParser.parse, ESMappingService) of outman/elasticq.              *)
(*                                                                         *)
(* The service is single-threaded JavaScript: one action is one            *)
(* synchronous run of a handler (a call up to its first await, a promise   *)
(* continuation, a timer callback, the completion of an HTTP request).     *)
(* Continuations of already-settled promises are microtasks; they run      *)
(* before the next timer or network event is dispatched.                   *)
(***************************************************************************)
EXTENDS Integers, Sequences, FiniteSets, TLC

VARIABLES
    cache,            \* ESMappingService.cache.cache : the LRU Map, oldest first
    pendingRequests,  \* ESMappingService.pendingRequests : Map key -> promise value
    stats,            \* ESMappingService.stats
    timeout,          \* debounce closure variable: id of the timer set last (0: none)
    timers,           \* the runtime's armed timers
    calls,            \* history of fetchMapping calls and what they resolved to
    fetches,          \* history of _fetchMapping runs (outbound requests)
    recency,          \* ghost: keys in order of their last touch (get hit / set)
    quietMs,          \* ghost: time since debouncedFetch was last called, up to wait
    lastOp,           \* ghost: the operation performed by the last step
    code,             \* the editor's text handed to the providers (model.getValue())
    offset,           \* the cursor, as a character offset into code
    currentFields,    \* the providers' active schema (this.currentFields)
    engine,           \* the JavaScript engine of the webview that runs the providers
    outcome,          \* the provider function called last and its outcome
    markers,          \* the markers the model carries under the owner 'es-dsl'
    debounceTimer,    \* ESDiagnosticsProvider.debounceTimer (0: null)
    armedPasses,      \* the runtime's armed timers of validateDebounced
    lastPass,         \* ghost: the validation pass executed last
    debounced         \* ghost: history of the validateDebounced calls

\* the variables of the mapping service and those of the editor providers
diagVars == <<markers, debounceTimer, armedPasses, lastPass, debounced>>
edVars ==
    <<code, offset, currentFields, engine, outcome,
      markers, debounceTimer, armedPasses, lastPass, debounced>>

vars ==
    <<cache, pendingRequests, stats, timeout, timers, calls, fetches, recency, quietMs,
      lastOp, code, offset, currentFields, engine, outcome,
      markers, debounceTimer, armedPasses, lastPass, debounced>>

----------------------------------------------------------------------------
(* Bounds of the model *)

\* capacity of the LRU cache under check (the service constructs it with 50)
maxSize == 2
\* number of fetchMapping calls in one behaviour
MaxCalls == 2
\* granularity of the passage of time, in milliseconds
TickMs == 150

\* quiescence window handed to debounce by the constructor
wait == 300

Endpoints == {"http://es"}
Indices == {"a", "b"}
\* keys of the cache exercised on its own: more than its capacity
CacheIndices == {"a", "b", "c", "d"}
Headers == {"h1", "h2"}

----------------------------------------------------------------------------
(* JavaScript values *)

JUndef == [t |-> "undefined"]
JNull == [t |-> "null"]
JStr(s) == [t |-> "string", s |-> s]
JBool(b) == [t |-> "boolean", b |-> b]
\* an object is the sequence of its own properties in insertion order
JObj(m) == [t |-> "object", m |-> m]
P(k, v) == [k |-> k, v |-> v]

HasProp(o, k) == o.t = "object" /\ \E n \in 1..Len(o.m) : o.m[n].k = k
\* o[k] : undefined when o has no such property
Prop(o, k) ==
    IF HasProp(o, k)
    THEN o.m[CHOOSE n \in 1..Len(o.m) : o.m[n].k = k].v
    ELSE JUndef
Truthy(v) ==
    CASE v.t \in {"undefined", "null"} -> FALSE
      [] v.t = "string" -> v.s # ""
      [] v.t = "number" -> v.n # 0
      [] v.t = "boolean" -> v.b
      [] OTHER -> TRUE
\* Object.keys(o)
ObjectKeys(o) == [n \in 1..Len(o.m) |-> o.m[n].k]

\* a parsed registry (a plain object path -> FieldInfo) as a promise value
RegistryObj(fields) == [t |-> "object", fields |-> fields]
EmptyFields == <<>>

\* fields[path] = info
PutField(fields, path, info) ==
    [p \in (DOMAIN fields) \cup {path} |-> IF p = path THEN info ELSE fields[p]]

----------------------------------------------------------------------------
(* MappingParser *)

RECURSIVE parseProperties(_, _, _)
RECURSIVE parsePropertiesFrom(_, _, _, _)
RECURSIVE parseMultiFields(_, _, _, _)

\* the loop over field.fields, from its n-th entry on
parseMultiFields(mf, fields, fullPath, n) ==
    IF n > Len(mf.m) THEN fields
    ELSE parseMultiFields(mf,
            PutField(fields, fullPath \o "." \o mf.m[n].k,
                     [type |-> Prop(mf.m[n].v, "type"),
                      isMultiField |-> TRUE,
                      parentField |-> fullPath]),
            fullPath, n + 1)

\* the loop over properties, from its n-th entry on
parsePropertiesFrom(properties, fields, prefix, n) ==
    IF n > Len(properties.m) THEN fields
    ELSE
      LET fieldName == properties.m[n].k
          field == properties.m[n].v
          fullPath == IF prefix # "" THEN prefix \o "." \o fieldName ELSE fieldName
          info == [type |-> IF Truthy(Prop(field, "type")) THEN Prop(field, "type")
                                                             ELSE JStr("object"),
                   analyzer |-> Prop(field, "analyzer"),
                   search_analyzer |-> Prop(field, "search_analyzer"),
                   normalizer |-> Prop(field, "normalizer"),
                   format |-> Prop(field, "format"),
                   isNested |-> Prop(field, "type") = JStr("nested"),
                   hasProperties |-> Truthy(Prop(field, "properties")),
                   multiFields |-> IF Truthy(Prop(field, "fields"))
                                   THEN ObjectKeys(Prop(field, "fields")) ELSE <<>>]
          f1 == PutField(fields, fullPath, info)
          f2 == IF Truthy(Prop(field, "properties"))
                THEN parseProperties(Prop(field, "properties"), f1, fullPath)
                ELSE f1
          f3 == IF Truthy(Prop(field, "fields"))
                THEN parseMultiFields(Prop(field, "fields"), f2, fullPath, 1)
                ELSE f2
      IN parsePropertiesFrom(properties, f3, prefix, n + 1)

parseProperties(properties, fields, prefix) ==
    IF ~Truthy(properties) THEN fields
    ELSE parsePropertiesFrom(properties, fields, prefix, 1)

extractPropertiesFromLegacy(mapping) ==
    IF Truthy(Prop(mapping, "properties")) THEN Prop(mapping, "properties")
    ELSE JObj(<<>>)

RECURSIVE parseFrom(_, _, _)
\* the loop over the indices of the response, from its n-th entry on
parseFrom(mappingData, fields, n) ==
    IF n > Len(mappingData.m) THEN fields
    ELSE
      LET indexData == mappingData.m[n].v
      IN IF ~Truthy(indexData) \/ ~Truthy(Prop(indexData, "mappings"))
         THEN parseFrom(mappingData, fields, n + 1)
         ELSE
           LET indexMapping == Prop(indexData, "mappings")
               properties == IF Truthy(Prop(indexMapping, "properties"))
                             THEN Prop(indexMapping, "properties")
                             ELSE extractPropertiesFromLegacy(indexMapping)
           IN parseFrom(mappingData,
                        IF Truthy(properties) /\ properties.t = "object"
                        THEN parseProperties(properties, fields, "")
                        ELSE fields,
                        n + 1)

parse(mappingData) ==
    IF ~Truthy(mappingData) \/ mappingData.t # "object" THEN EmptyFields
    ELSE parseFrom(mappingData, EmptyFields, 1)

\* response bodies the backend answers with
BodyNull == JNull
BodyNoMappings == JObj(<<P("a", JObj(<<P("aliases", JObj(<<>>))>>))>>)
BodyUser ==
    JObj(<<P("a", JObj(<<P("mappings", JObj(<<P("properties", JObj(<<
        P("user", JObj(<<P("properties", JObj(<<
            P("name", JObj(<<P("type", JStr("text")),
                             P("fields", JObj(<<P("keyword",
                                 JObj(<<P("type", JStr("keyword"))>>))>>))>>))
        >>))>>))
    >>))>>))>>))>>)
Bodies == {BodyNull, BodyNoMappings, BodyUser}

----------------------------------------------------------------------------
(* JavaScript Map: sequence of entries in insertion order *)

MapKeys(m) == {m[n].key : n \in 1..Len(m)}
MapHas(m, key) == key \in MapKeys(m)
MapGet(m, key) ==
    IF MapHas(m, key) THEN m[CHOOSE n \in 1..Len(m) : m[n].key = key].value
    ELSE JUndef
MapDelete(m, key) == SelectSeq(m, LAMBDA e : e.key # key)
\* an existing key keeps its position, a new key goes last
MapSet(m, key, value) ==
    IF MapHas(m, key)
    THEN [n \in 1..Len(m) |-> IF m[n].key = key THEN [key |-> key, value |-> value]
                                                 ELSE m[n]]
    ELSE Append(m, [key |-> key, value |-> value])

----------------------------------------------------------------------------
(* LRUCache *)

\* the methods the class defines (size and keys are getters)
LRUCacheMethods == {"get", "set", "has", "clear"}

\* a get that returns the value without moving the entry
LRUCacheGetKeepsPlace(c, key) ==
    [cache |-> c, ret |-> MapGet(c, key)]

LRUCacheGet(c, key) ==
    IF ~MapHas(c, key) THEN [cache |-> c, ret |-> JUndef]
    ELSE LET value == MapGet(c, key)
         IN [cache |-> MapSet(MapDelete(c, key), key, value), ret |-> value]

\* a set that evicts the newest entry instead of the oldest
LRUCacheSetEvictsNewest(c, key, value) ==
    IF MapHas(c, key) THEN MapSet(MapDelete(c, key), key, value)
    ELSE IF Len(c) >= maxSize
         THEN MapSet(IF Len(c) > 0 THEN MapDelete(c, c[Len(c)].key) ELSE c, key, value)
         ELSE MapSet(c, key, value)

LRUCacheSet(c, key, value) ==
    IF MapHas(c, key) THEN MapSet(MapDelete(c, key), key, value)
    ELSE IF Len(c) >= maxSize
         THEN \* keys().next().value is undefined on an empty Map: delete is a no-op
              MapSet(IF Len(c) > 0 THEN MapDelete(c, c[1].key) ELSE c, key, value)
         ELSE MapSet(c, key, value)

LRUCacheHas(c, key) == MapHas(c, key)

LRUCacheClear(c) == <<>>

LRUCacheSize(c) == Len(c)

----------------------------------------------------------------------------
(* debounce *)

clearTimeout(ts, id) == {t \in ts : t.id # id}

setTimeout(ts, id, args, delay) ==
    ts \cup {[id |-> id, args |-> args, remaining |-> delay]}

\* a debounce that arms a new timer without clearing the one before
executedFunctionKeepsTimer(ts, tmo, args, id) ==
    [timers |-> setTimeout(ts, id, args, wait),
     timeout |-> id,
     ret |-> JUndef]

\* executedFunction(...args): re-arms the timer; it has no return statement
executedFunction(ts, tmo, args, id) ==
    [timers |-> setTimeout(clearTimeout(ts, tmo), id, args, wait),
     timeout |-> id,
     ret |-> JUndef]

----------------------------------------------------------------------------
(* ESMappingService *)

cacheKeyOf(elasticsearchUrl, indexName) == elasticsearchUrl \o "#" \o indexName

Keys == {cacheKeyOf(e, i) : e \in Endpoints, i \in CacheIndices}

\* values a test stores in a cache
Values == {RegistryObj(parse(b)) : b \in Bodies}

\* ghost: move key to the most-recent end, forget keys that left the cache
Touch(rec, key, present) ==
    SelectSeq(SelectSeq(rec, LAMBDA x : x # key) \o <<key>>, LAMBDA x : x \in present)

NoOp == [op |-> "", key |-> ""]
\* ghost record of a step: the operation, its key and return value, whether it
\* called cache.set, whether it threw, the keys that left the cache, and (for a
\* set on the cache alone) the cache hit that immediately preceded it
Op(op, key, ret, wrote, threw) ==
    [op |-> op, key |-> key, ret |-> ret, wrote |-> wrote, threw |-> threw,
     removed |-> {}, after |-> NoOp]

\* no continuation of a settled promise is waiting in the microtask queue
NoMicrotask == \A c \in 1..Len(calls) : calls[c].status # "awaiting"

\* the service as its constructor leaves it
ServiceInit ==
    /\ cache = <<>>
    /\ pendingRequests = <<>>
    /\ stats = [cacheHits |-> 0, cacheMisses |-> 0, fetchCount |-> 0]
    /\ timeout = 0
    /\ timers = {}
    /\ calls = <<>>
    /\ fetches = <<>>
    /\ recency = <<>>
    /\ quietMs = wait
    /\ lastOp = Op("constructor", "", JUndef, FALSE, FALSE)

\* no provider function has been called
NoRet == [fn |-> "", threw |-> FALSE, v |-> JUndef]

\* the diagnostics provider as its constructor leaves it, on a model without
\* markers
DiagnosticsInit ==
    /\ markers = <<>>
    /\ debounceTimer = 0
    /\ armedPasses = {}
    /\ lastPass = [n |-> 0, text |-> JUndef, fields |-> JUndef]
    /\ debounced = <<>>

\* the editor providers play no part in the behaviours of the service
EditorIdle ==
    /\ DiagnosticsInit
    /\ code = JUndef
    /\ offset = 0
    /\ currentFields = JObj(<<>>)
    /\ engine = ""
    /\ outcome = NoRet

Init == ServiceInit /\ EditorIdle

Call(key, headers, kind, status, result) ==
    [key |-> key, headers |-> headers, kind |-> kind, status |-> status,
     result |-> result,
     \* ghost: the calls still outstanding when this one was issued
     during |-> {c \in 1..Len(calls) : calls[c].status = "awaiting"},
     \* ghost: debouncedFetch had not been called for the whole window
     quiet |-> quietMs >= wait]

\* a hit path that counts the miss before it looks into the cache
FetchMappingHitCountsMiss(e, i, h) ==
    LET cacheKey == cacheKeyOf(e, i)
        got == LRUCacheGet(cache, cacheKey)
    IN /\ Len(calls) < MaxCalls
       /\ LRUCacheHas(cache, cacheKey)
       /\ stats' = [stats EXCEPT !.cacheHits = @ + 1, !.cacheMisses = @ + 1]
       /\ cache' = got.cache
       /\ calls' = Append(calls, Call(cacheKey, h, "hit", "resolved", got.ret))
       /\ recency' = Touch(recency, cacheKey, MapKeys(cache'))
       /\ lastOp' = Op("fetchMapping", cacheKey, got.ret, FALSE, FALSE)
       /\ UNCHANGED edVars
       /\ UNCHANGED <<pendingRequests, timeout, timers, fetches, quietMs>>

\* fetchMapping, cache hit
FetchMappingHit(e, i, h) ==
    LET cacheKey == cacheKeyOf(e, i)
        got == LRUCacheGet(cache, cacheKey)
    IN /\ Len(calls) < MaxCalls
       /\ LRUCacheHas(cache, cacheKey)
       /\ stats' = [stats EXCEPT !.cacheHits = @ + 1]
       /\ cache' = got.cache
       /\ calls' = Append(calls, Call(cacheKey, h, "hit", "resolved", got.ret))
       /\ recency' = Touch(recency, cacheKey, MapKeys(cache'))
       /\ lastOp' = Op("fetchMapping", cacheKey, got.ret, FALSE, FALSE)
       /\ UNCHANGED edVars
       /\ UNCHANGED <<pendingRequests, timeout, timers, fetches, quietMs>>

\* fetchMapping, cache miss while a request for the key is registered
FetchMappingCoalesce(e, i, h) ==
    LET cacheKey == cacheKeyOf(e, i)
    IN /\ Len(calls) < MaxCalls
       /\ ~LRUCacheHas(cache, cacheKey)
       /\ MapHas(pendingRequests, cacheKey)
       /\ stats' = [stats EXCEPT !.cacheMisses = @ + 1]
       /\ calls' = Append(calls, Call(cacheKey, h, "coalesced", "resolved",
                                      MapGet(pendingRequests, cacheKey)))
       /\ lastOp' = Op("fetchMapping", cacheKey, JUndef, FALSE, FALSE)
       /\ UNCHANGED edVars
       /\ UNCHANGED <<cache, pendingRequests, timeout, timers, fetches, recency,
                       quietMs>>

\* fetchMapping, cache miss with no registered request: up to the await
FetchMappingSchedule(e, i, h) ==
    LET cacheKey == cacheKeyOf(e, i)
        id == Len(calls) + 1
        args == [elasticsearchUrl |-> e, indexName |-> i, headers |-> h,
                 cacheKey |-> cacheKey]
        deb == executedFunction(timers, timeout, args, id)
        requestPromise == deb.ret
    IN /\ Len(calls) < MaxCalls
       /\ ~LRUCacheHas(cache, cacheKey)
       /\ ~MapHas(pendingRequests, cacheKey)
       /\ stats' = [stats EXCEPT !.cacheMisses = @ + 1]
       /\ timers' = deb.timers
       /\ timeout' = deb.timeout
       /\ pendingRequests' = MapSet(pendingRequests, cacheKey, requestPromise)
       /\ calls' = Append(calls, Call(cacheKey, h, "scheduled", "awaiting",
                                      requestPromise))
       /\ quietMs' = 0
       /\ lastOp' = Op("fetchMapping", cacheKey, JUndef, FALSE, FALSE)
       /\ UNCHANGED edVars
       /\ UNCHANGED <<cache, fetches, recency>>

\* a continuation without the finally-clause
FetchMappingResumeKeepsEntry(c) ==
    /\ c \in 1..Len(calls)
    /\ calls[c].status = "awaiting"
    /\ calls' = [calls EXCEPT ![c].status = "resolved"]
    /\ lastOp' = Op("fetchMapping.resume", "", JUndef, FALSE, FALSE)
    /\ UNCHANGED edVars
    /\ UNCHANGED <<cache, pendingRequests, stats, timeout, timers, fetches, recency,
                   quietMs>>

\* fetchMapping, after the await: result = the awaited value; finally-clause
FetchMappingResume(c) ==
    /\ c \in 1..Len(calls)
    /\ calls[c].status = "awaiting"
    /\ calls' = [calls EXCEPT ![c].status = "resolved"]
    /\ pendingRequests' = MapDelete(pendingRequests, calls[c].key)
    /\ lastOp' = Op("fetchMapping.resume", "", JUndef, FALSE, FALSE)
    /\ UNCHANGED edVars
    /\ UNCHANGED <<cache, stats, timeout, timers, fetches, recency, quietMs>>

\* time passes; a timer that is due fires before more time passes
Tick ==
    /\ NoMicrotask
    /\ timers # {}
    /\ \A t \in timers : t.remaining > 0
    /\ timers' = {[t EXCEPT !.remaining = IF @ > TickMs THEN @ - TickMs ELSE 0] :
                     t \in timers}
    /\ quietMs' = IF quietMs + TickMs < wait THEN quietMs + TickMs ELSE wait
    /\ lastOp' = Op("tick", "", JUndef, FALSE, FALSE)
    /\ UNCHANGED edVars
    /\ UNCHANGED <<cache, pendingRequests, stats, timeout, calls, fetches, recency>>

\* later(): clearTimeout(timeout); func(...args) = _fetchMapping up to its await
Later(t) ==
    /\ NoMicrotask
    /\ t \in timers
    /\ t.remaining = 0
    /\ timers' = clearTimeout(timers \ {t}, timeout)
    /\ stats' = [stats EXCEPT !.fetchCount = @ + 1]
    /\ fetches' = Append(fetches,
           [key |-> t.args.cacheKey, elasticsearchUrl |-> t.args.elasticsearchUrl,
            indexName |-> t.args.indexName, headers |-> t.args.headers,
            \* ghost: the call that armed the timer, the calls made so far, and
            \* how long debouncedFetch had been quiet
            by |-> t.id, after |-> Len(calls), quietFor |-> quietMs,
            status |-> "inflight", ret |-> JUndef, cached |-> FALSE])
    /\ lastOp' = Op("later", "", JUndef, FALSE, FALSE)
    /\ UNCHANGED edVars
    /\ UNCHANGED <<cache, pendingRequests, timeout, calls, recency, quietMs>>

FailureKinds == {"transport error", "status not ok", "malformed body"}

\* a catch-clause that caches the empty object it returns
FetchMappingFailCaches(n, why) ==
    /\ NoMicrotask
    /\ n \in 1..Len(fetches)
    /\ fetches[n].status = "inflight"
    /\ why \in FailureKinds
    /\ cache' = LRUCacheSet(cache, fetches[n].key, RegistryObj(EmptyFields))
    /\ fetches' = [fetches EXCEPT ![n].status = "done",
                                  ![n].ret = RegistryObj(EmptyFields)]
    /\ recency' = Touch(recency, fetches[n].key, MapKeys(cache'))
    /\ lastOp' = Op("_fetchMapping", "", JUndef, FALSE, FALSE)
    /\ UNCHANGED edVars
    /\ UNCHANGED <<pendingRequests, stats, timeout, timers, calls, quietMs>>

\* _fetchMapping, the request failed: fetchFn rejected, !response.ok, or
\* response.json() rejected; the catch-clause returns {}
FetchMappingFail(n, why) ==
    /\ NoMicrotask
    /\ n \in 1..Len(fetches)
    /\ fetches[n].status = "inflight"
    /\ why \in FailureKinds
    /\ fetches' = [fetches EXCEPT ![n].status = "done",
                                  ![n].ret = RegistryObj(EmptyFields)]
    /\ lastOp' = Op("_fetchMapping", "", JUndef, FALSE, FALSE)
    /\ UNCHANGED edVars
    /\ UNCHANGED <<cache, pendingRequests, stats, timeout, timers, calls, recency,
                   quietMs>>

\* _fetchMapping, the request answered 2xx with a JSON body: parse, cache, return
FetchMappingOk(n, data) ==
    LET fields == RegistryObj(parse(data))
    IN /\ NoMicrotask
       /\ n \in 1..Len(fetches)
       /\ fetches[n].status = "inflight"
       /\ cache' = LRUCacheSet(cache, fetches[n].key, fields)
       /\ fetches' = [fetches EXCEPT ![n].status = "done", ![n].ret = fields,
                                     ![n].cached = TRUE]
       /\ recency' = Touch(recency, fetches[n].key, MapKeys(cache'))
       /\ lastOp' = [Op("_fetchMapping", fetches[n].key, JUndef, TRUE, FALSE)
                        EXCEPT !.removed = MapKeys(cache) \ MapKeys(cache')]
       /\ UNCHANGED edVars
       /\ UNCHANGED <<pendingRequests, stats, timeout, timers, calls, quietMs>>

\* a clearCache that leaves the pending-request map alone
ClearCacheKeepsPending ==
    /\ cache' = LRUCacheClear(cache)
    /\ stats' = [cacheHits |-> 0, cacheMisses |-> 0, fetchCount |-> 0]
    /\ recency' = <<>>
    /\ lastOp' = Op("clearCache", "", JUndef, FALSE, FALSE)
    /\ UNCHANGED edVars
    /\ UNCHANGED <<pendingRequests, timeout, timers, calls, fetches, quietMs>>

\* clearCache: cache.clear(), pendingRequests.clear(), stats reset
ClearCache ==
    /\ cache' = LRUCacheClear(cache)
    /\ pendingRequests' = <<>>
    /\ stats' = [cacheHits |-> 0, cacheMisses |-> 0, fetchCount |-> 0]
    /\ recency' = <<>>
    /\ lastOp' = Op("clearCache", "", JUndef, FALSE, FALSE)
    /\ UNCHANGED edVars
    /\ UNCHANGED <<timeout, timers, calls, fetches, quietMs>>

\* clearIndexCache calls this.cache.delete(cacheKey) on the LRUCache
ClearIndexCache(e, i) ==
    LET cacheKey == cacheKeyOf(e, i)
    IN IF "delete" \in LRUCacheMethods
       THEN /\ cache' = MapDelete(cache, cacheKey)
            /\ recency' = SelectSeq(recency, LAMBDA x : x # cacheKey)
            /\ lastOp' = Op("clearIndexCache", cacheKey, JUndef, FALSE, FALSE)
            /\ UNCHANGED edVars
            /\ UNCHANGED <<pendingRequests, stats, timeout, timers, calls, fetches,
                           quietMs>>
       ELSE \* TypeError: this.cache.delete is not a function
            /\ lastOp' = Op("clearIndexCache", cacheKey, JUndef, FALSE, TRUE)
            /\ UNCHANGED edVars
            /\ UNCHANGED <<cache, pendingRequests, stats, timeout, timers, calls,
                           fetches, recency, quietMs>>

getStats ==
    [cacheHits |-> stats.cacheHits, cacheMisses |-> stats.cacheMisses,
     fetchCount |-> stats.fetchCount, cacheSize |-> LRUCacheSize(cache),
     pendingRequests |-> Len(pendingRequests)]

Next ==
    \/ \E e \in Endpoints, i \in Indices, h \in Headers : FetchMappingHit(e, i, h)
    \/ \E e \in Endpoints, i \in Indices, h \in Headers : FetchMappingCoalesce(e, i, h)
    \/ \E e \in Endpoints, i \in Indices, h \in Headers : FetchMappingSchedule(e, i, h)
    \/ \E c \in 1..MaxCalls : FetchMappingResume(c)
    \/ Tick
    \/ \E t \in timers : Later(t)
    \/ \E n \in 1..MaxCalls, why \in FailureKinds : FetchMappingFail(n, why)
    \/ \E n \in 1..MaxCalls, data \in Bodies : FetchMappingOk(n, data)
    \/ ClearCache
    \/ \E e \in Endpoints, i \in Indices : ClearIndexCache(e, i)

Spec == Init /\ [][Next]_vars

----------------------------------------------------------------------------
(* The LRUCache on its own: any sequence of get / set / has / clear, and    *)
(* cache hits of the service, on the service's cache                        *)

CacheGet(key) ==
    LET got == LRUCacheGet(cache, key)
    IN /\ cache' = got.cache
       /\ recency' = IF MapHas(cache, key) THEN Touch(recency, key, MapKeys(cache'))
                                           ELSE recency
       /\ lastOp' = Op("get", key, got.ret, FALSE, FALSE)
       /\ UNCHANGED edVars
       /\ UNCHANGED <<pendingRequests, stats, timeout, timers, calls, fetches, quietMs>>

CacheSet(key, value) ==
    /\ cache' = LRUCacheSet(cache, key, value)
    /\ recency' = Touch(recency, key, MapKeys(cache'))
    /\ lastOp' = [Op("set", key, JUndef, TRUE, FALSE)
                     EXCEPT !.removed = MapKeys(cache) \ MapKeys(cache'),
                            !.after = IF lastOp.op \in {"get", "fetchMapping"}
                                         /\ lastOp.ret # JUndef
                                      THEN [op |-> lastOp.op, key |-> lastOp.key]
                                      ELSE NoOp]
    /\ UNCHANGED edVars
    /\ UNCHANGED <<pendingRequests, stats, timeout, timers, calls, fetches, quietMs>>

CacheHas(key) ==
    /\ lastOp' = Op("has", key, JBool(LRUCacheHas(cache, key)), FALSE, FALSE)
    /\ UNCHANGED edVars
    /\ UNCHANGED <<cache, pendingRequests, stats, timeout, timers, calls, fetches,
                   recency, quietMs>>

CacheClear ==
    /\ cache' = LRUCacheClear(cache)
    /\ recency' = <<>>
    /\ lastOp' = Op("clear", "", JUndef, FALSE, FALSE)
    /\ UNCHANGED edVars
    /\ UNCHANGED <<pendingRequests, stats, timeout, timers, calls, fetches, quietMs>>

NextLRU ==
    \/ \E key \in Keys : CacheGet(key)
    \/ \E key \in Keys, value \in Values : CacheSet(key, value)
    \/ \E key \in Keys : CacheHas(key)
    \/ CacheClear
    \* one cache hit of the service among the cache's own operations
    \/ \E e \in Endpoints, i \in CacheIndices, h \in Headers :
          calls = <<>> /\ FetchMappingHit(e, i, h)

SpecLRU == Init /\ [][NextLRU]_vars

----------------------------------------------------------------------------
(* Claims about the LRU cache (checked under SpecLRU) *)

\* the step calls cache.set with a key the full cache does not hold
SetsNewKeyWhenFull ==
    /\ lastOp'.wrote
    /\ ~MapHas(cache, lastOp'.key)
    /\ LRUCacheSize(cache) = maxSize

\* C5: after any sequence of get / set / has / clear the cache holds at most
\* maxSize entries, and a set of an absent key on a full cache removes exactly
\* one entry, the key least recently touched by a get hit or a set.
C5_CacheBound ==
    /\ [](LRUCacheSize(cache) <= maxSize)
    /\ [][SetsNewKeyWhenFull =>
            /\ MapKeys(cache') = (MapKeys(cache) \ {Head(recency)}) \cup {lastOp'.key}
            /\ lastOp'.removed = {Head(recency)}
            /\ LRUCacheSize(cache') = maxSize]_vars

\* a set on a full cache has just evicted an entry
C5_Witness ==
    /\ lastOp.op = "set"
    /\ lastOp.removed # {}
    /\ LRUCacheSize(cache) = maxSize

\* C6: on a full cache, a hit on key K (by get, or by a fetchMapping cache hit)
\* followed by a set of one new key evicts the oldest of the other keys; K stays.
C6_Recency ==
    [][\A K \in Keys :
          (/\ lastOp.op \in {"get", "fetchMapping"}
           /\ lastOp.key = K
           /\ lastOp.ret # JUndef
           /\ SetsNewKeyWhenFull)
          => /\ MapHas(cache', K)
             /\ K \notin lastOp'.removed
             /\ lastOp'.removed = {Head(SelectSeq(recency, LAMBDA x : x # K))}]_vars

\* a new key was set on a full cache right after a fetchMapping cache hit on a
\* key, and that key is still cached
C6_Witness ==
    /\ lastOp.op = "set"
    /\ lastOp.after.op = "fetchMapping"
    /\ lastOp.removed # {}
    /\ MapHas(cache, lastOp.after.key)

----------------------------------------------------------------------------
(* Claims about the fetch orchestrator (checked under Spec) *)

Calls == 1..Len(calls)
Fetches == 1..Len(fetches)
Resolved(c) == calls[c].status = "resolved"
LastIn(S) == CHOOSE c \in S : \A d \in S : d <= c
\* the calls made before fetch f was issued that missed the cache
MissesBefore(f) ==
    {c \in 1..fetches[f].after : calls[c].kind \in {"scheduled", "coalesced"}}
\* the calls made before fetch f was issued that called debouncedFetch
ScheduledBefore(f) == {c \in 1..fetches[f].after : calls[c].kind = "scheduled"}

\* C1: two concurrent fetchMapping calls for one uncached, non-pending key
\* cause exactly one outbound fetch for the key, and both resolve to the one
\* result object of that fetch.
C1_SingleFlight ==
    \A c1, c2 \in Calls :
        (/\ c1 < c2
         /\ calls[c1].key = calls[c2].key
         /\ calls[c1].kind = "scheduled"
         /\ c1 \in calls[c2].during
         /\ Resolved(c1) /\ Resolved(c2))
        => /\ calls[c1].result = calls[c2].result
           /\ calls[c1].result # JUndef
           /\ Cardinality({f \in Fetches : /\ fetches[f].by >= c1
                                           /\ fetches[f].key = calls[c1].key}) = 1
           /\ \E f \in Fetches : /\ fetches[f].by >= c1
                                 /\ fetches[f].ret = calls[c1].result

\* C2: for every cache key at most one outbound fetch is in flight at any time.
C2_AtMostOneInFlight ==
    \A k \in Keys :
        Cardinality({f \in Fetches : /\ fetches[f].status = "inflight"
                                     /\ fetches[f].key = k}) <= 1

\* C3: a call that misses the cache resolves only after its fetch has
\* completed, and when that fetch succeeded it resolves to the registry parsed
\* from the response (the value the cache then holds).
C3_ResolvesToParsed ==
    \A c \in Calls, f \in Fetches :
        (fetches[f].by = c /\ Resolved(c))
        => /\ fetches[f].status = "done"
           /\ fetches[f].cached => calls[c].result = fetches[f].ret

\* C4: a call whose fetch failed resolves to an empty registry; no call rejects.
C4_FailureResolvesEmpty ==
    /\ \A c \in Calls : calls[c].status \in {"awaiting", "resolved"}
    /\ \A c \in Calls, f \in Fetches :
        (/\ fetches[f].by = c
         /\ fetches[f].status = "done"
         /\ ~fetches[f].cached
         /\ Resolved(c))
        => calls[c].result = RegistryObj(EmptyFields)

CallStep == Len(calls') = Len(calls) + 1
NewCall == calls'[Len(calls')]

\* C7: a fetchMapping call whose key is cached returns the cached registry,
\* adds exactly one to the hit counter and leaves the miss and fetch counters,
\* the pending requests, the debounce timer and the set of cached keys alone.
C7_HitFrame ==
    [][(CallStep /\ LRUCacheHas(cache, NewCall.key))
       => /\ NewCall.kind = "hit"
          /\ NewCall.status = "resolved"
          /\ NewCall.result = MapGet(cache, NewCall.key)
          /\ stats' = [stats EXCEPT !.cacheHits = @ + 1]
          /\ MapKeys(cache') = MapKeys(cache)
          /\ UNCHANGED <<pendingRequests, timeout, timers, fetches>>]_vars

\* a call was served from the cache with the registry a fetch had stored
C7_Witness ==
    \E c \in Calls, f \in Fetches :
        /\ calls[c].kind = "hit"
        /\ fetches[f].cached
        /\ calls[c].result = fetches[f].ret
        /\ stats.cacheHits = 1

\* C8: a pending-request entry belongs to a call that has not resolved yet, so
\* with no call outstanding the in-flight count of getStats is 0.
C8_PendingReleased ==
    /\ \A k \in MapKeys(pendingRequests) :
          \E c \in Calls : /\ calls[c].key = k
                           /\ calls[c].kind = "scheduled"
                           /\ ~Resolved(c)
    /\ NoMicrotask => getStats.pendingRequests = 0

\* a call that registered a pending request has resolved, its fetch has failed,
\* and no pending request is left
C8_Witness ==
    \E c \in Calls, f \in Fetches :
        /\ calls[c].kind = "scheduled"
        /\ Resolved(c)
        /\ fetches[f].by = c
        /\ fetches[f].status = "done"
        /\ ~fetches[f].cached
        /\ getStats.pendingRequests = 0

\* C9 as stated: every outbound fetch is issued after a quiet window and carries
\* the arguments of the last cache-miss call of its burst, one fetch per burst.
C9_LastMissWins ==
    /\ \A f \in Fetches :
          LET M == MissesBefore(f)
          IN /\ M # {}
             /\ fetches[f].quietFor >= wait
             /\ (\A c \in M : c > fetches[f].by => ~calls[c].quiet)
                => /\ fetches[f].key = calls[LastIn(M)].key
                   /\ fetches[f].headers = calls[LastIn(M)].headers
    /\ \A f1, f2 \in Fetches :
          LastIn(MissesBefore(f1)) = LastIn(MissesBefore(f2)) => f1 = f2

\* C9 amended: every outbound fetch is issued after debouncedFetch has been
\* quiet for the window and carries the arguments of the last call that reached
\* debouncedFetch (cache miss, no pending request for its key); such a call
\* followed within the window by another one never issues a fetch; once the
\* timer is no longer armed the burst has issued exactly one fetch.
C9_LastDebouncedWins ==
    /\ \A f \in Fetches :
          LET S == ScheduledBefore(f)
          IN /\ S # {}
             /\ fetches[f].quietFor >= wait
             /\ fetches[f].by = LastIn(S)
             /\ fetches[f].key = calls[LastIn(S)].key
             /\ fetches[f].headers = calls[LastIn(S)].headers
    /\ \A f1, f2 \in Fetches : fetches[f1].by = fetches[f2].by => f1 = f2
    /\ \A c, d \in Calls :
          (/\ c < d
           /\ calls[c].kind = "scheduled"
           /\ calls[d].kind = "scheduled"
           /\ ~calls[d].quiet
           /\ \A x \in (c + 1)..(d - 1) : calls[x].kind # "scheduled")
          => \A f \in Fetches : fetches[f].by # c
    /\ LET S == {c \in Calls : calls[c].kind = "scheduled"}
       IN (timers = {} /\ S # {}) => \E f \in Fetches : fetches[f].by = LastIn(S)

\* two calls reached debouncedFetch within one window: the first was
\* superseded, the one fetch issued carries the arguments of the second
C9_Witness ==
    /\ Len(calls) >= 2
    /\ calls[1].kind = "scheduled"
    /\ calls[2].kind = "scheduled"
    /\ ~calls[2].quiet
    /\ Len(fetches) = 1
    /\ fetches[1].by = 2
    /\ timers = {}

\* C10: clearIndexCache completes without fault and removes exactly the entry
\* of its key, leaving the other entries, their order, the pending requests
\* and the counters unchanged.
C10_InvalidateRemovesEntry ==
    [][lastOp'.op = "clearIndexCache"
       => /\ ~lastOp'.threw
          /\ cache' = MapDelete(cache, lastOp'.key)
          /\ UNCHANGED <<pendingRequests, stats>>]_vars

----------------------------------------------------------------------------
(* Claims about clearCache (checked under Spec) *)

\* C11: immediately after clearCache, in any state, the cache size is 0, the
\* pending-request map is empty, and the hit, miss and fetch counters are 0.
C11_ClearResets ==
    lastOp.op = "clearCache"
    => /\ getStats.cacheSize = 0
       /\ getStats.pendingRequests = 0
       /\ getStats.cacheHits = 0
       /\ getStats.cacheMisses = 0
       /\ getStats.fetchCount = 0

\* clearCache ran while a call was waiting on its registered request, after a
\* fetch had been counted and its result cached
C11_Witness ==
    /\ lastOp.op = "clearCache"
    /\ \E c \in Calls : calls[c].status = "awaiting"
    /\ \E f \in Fetches : fetches[f].cached

----------------------------------------------------------------------------
(* The editor providers: texts, and the outcome of a call                   *)

\* a string whose characters matter: the sequence of its characters
JText(c) == [t |-> "string", c |-> c]
JNum(n) == [t |-> "number", n |-> n]
JArr(a) == [t |-> "array", a |-> a]

\* a call either returns a value or throws an exception
Return(v) == [threw |-> FALSE, v |-> v]
Throw(e) == [threw |-> TRUE, e |-> e]
SyntaxError(at, eof) == [name |-> "SyntaxError", at |-> at, eof |-> eof]
TypeError(message) == [name |-> "TypeError", message |-> message]

Ws == {" ", "\n", "\t", "\r"}
Digits == {"0", "1", "2", "3", "4", "5", "6", "7", "8", "9"}
HexDigits == Digits \cup {"a", "b", "c", "d", "e", "f", "A", "B", "C", "D", "E", "F"}
DigitVal(c) ==
    CASE c = "0" -> 0 [] c = "1" -> 1 [] c = "2" -> 2 [] c = "3" -> 3 [] c = "4" -> 4
      [] c = "5" -> 5 [] c = "6" -> 6 [] c = "7" -> 7 [] c = "8" -> 8 [] c = "9" -> 9

Least(S) == CHOOSE x \in S : \A y \in S : x <= y
\* the first index >= i of s whose character is outside C; Len(s) + 1 if none
Skip(s, i, C) ==
    LET J == {j \in i..Len(s) : s[j] \notin C}
    IN IF J = {} THEN Len(s) + 1 ELSE Least(J)

\* the characters of s joined into one string
RECURSIVE Join(_)
Join(s) == IF s = <<>> THEN "" ELSE Head(s) \o Join(Tail(s))

\* a string value of a parsed document: the string and its characters
JString(c) == [t |-> "string", s |-> Join(c), c |-> c]
\* a member of a parsed object: its key, the key's characters, its value
Member(c, v) == [k |-> Join(c), v |-> v, c |-> c]

----------------------------------------------------------------------------
(* JSON.parse: the engine's strict parser, on texts that hold integers (no  *)
(* fraction or exponent). A failure carries the offset of the offending     *)
(* character, or says that the text ended too early.                        *)

ParseOk(v, i) == [ok |-> TRUE, v |-> v, i |-> i]
ParseFail(at, eof) == [ok |-> FALSE, at |-> at, eof |-> eof]

Escapes == {"\"", "\\", "/", "b", "f", "n", "r", "t"}
Unescape(c) ==
    CASE c = "n" -> "\n" [] c = "t" -> "\t" [] c = "r" -> "\r" [] c = "f" -> "\f"
      [] c = "b" -> "<BS>" [] OTHER -> c

\* the string literal whose opening quote precedes index j
RECURSIVE ParseStringFrom(_, _, _)
ParseStringFrom(s, j, acc) ==
    IF j > Len(s) THEN ParseFail(Len(s), TRUE)
    ELSE IF s[j] = "\"" THEN ParseOk(acc, j + 1)
    ELSE IF s[j] = "\\"
    THEN IF j + 1 > Len(s) THEN ParseFail(Len(s), TRUE)
         ELSE IF s[j + 1] \in Escapes
         THEN ParseStringFrom(s, j + 2, Append(acc, Unescape(s[j + 1])))
         ELSE IF s[j + 1] = "u"
         THEN LET bad == {k \in (j + 2)..(j + 5) : k > Len(s) \/ s[k] \notin HexDigits}
              IN IF bad = {}
                 THEN ParseStringFrom(s, j + 6,
                          Append(acc, "\\u" \o Join(SubSeq(s, j + 2, j + 5))))
                 ELSE IF Least(bad) > Len(s) THEN ParseFail(Len(s), TRUE)
                 ELSE ParseFail(Least(bad) - 1, FALSE)
         ELSE ParseFail(j, FALSE)
    ELSE IF s[j] \in {"\n", "\t", "\r", "\f"} THEN ParseFail(j - 1, FALSE)
    ELSE ParseStringFrom(s, j + 1, Append(acc, s[j]))

\* the value of the digits s[i..j-1]
RECURSIVE DecVal(_, _, _)
DecVal(s, i, j) == IF j <= i THEN 0 ELSE 10 * DecVal(s, i, j - 1) + DigitVal(s[j - 1])

ParseNumber(s, i) ==
    LET d == IF s[i] = "-" THEN i + 1 ELSE i
        e == IF d <= Len(s) /\ s[d] = "0" THEN d + 1 ELSE Skip(s, d, Digits)
    IN IF d > Len(s) THEN ParseFail(Len(s), TRUE)
       ELSE IF s[d] \notin Digits THEN ParseFail(d - 1, FALSE)
       ELSE ParseOk(JNum(IF d = i THEN DecVal(s, d, e) ELSE 0 - DecVal(s, d, e)), e)

ParseLiteral(s, i, word, v) ==
    LET bad == {k \in 1..Len(word) : i + k - 1 > Len(s) \/ s[i + k - 1] # word[k]}
    IN IF bad = {} THEN ParseOk(v, i + Len(word))
       ELSE IF i + Least(bad) - 1 > Len(s) THEN ParseFail(Len(s), TRUE)
       ELSE ParseFail(i + Least(bad) - 2, FALSE)

\* obj[k] = v on the property list of an object, k given by its characters: a
\* key seen again keeps its place (keys that are array indices would come
\* first: the documents of the model have at most one such key per object)
SetProp(m, k, v) ==
    IF \E n \in 1..Len(m) : m[n].c = k
    THEN [n \in 1..Len(m) |-> IF m[n].c = k THEN Member(k, v) ELSE m[n]]
    ELSE Append(m, Member(k, v))

RECURSIVE ParseValue(_, _)
RECURSIVE ParseMembers(_, _, _)
RECURSIVE ParseElements(_, _, _)

ParseValue(s, i0) ==
    LET i == Skip(s, i0, Ws)
    IN IF i > Len(s) THEN ParseFail(Len(s), TRUE)
       ELSE CASE s[i] = "{" ->
                   LET j == Skip(s, i + 1, Ws)
                   IN IF j <= Len(s) /\ s[j] = "}" THEN ParseOk(JObj(<<>>), j + 1)
                      ELSE ParseMembers(s, j, <<>>)
              [] s[i] = "[" ->
                   LET j == Skip(s, i + 1, Ws)
                   IN IF j <= Len(s) /\ s[j] = "]" THEN ParseOk(JArr(<<>>), j + 1)
                      ELSE ParseElements(s, j, <<>>)
              [] s[i] = "\"" ->
                   LET r == ParseStringFrom(s, i + 1, <<>>)
                   IN IF r.ok THEN ParseOk(JString(r.v), r.i) ELSE r
              [] s[i] = "-" \/ s[i] \in Digits -> ParseNumber(s, i)
              [] s[i] = "t" -> ParseLiteral(s, i, <<"t", "r", "u", "e">>, JBool(TRUE))
              [] s[i] = "f" ->
                   ParseLiteral(s, i, <<"f", "a", "l", "s", "e">>, JBool(FALSE))
              [] s[i] = "n" -> ParseLiteral(s, i, <<"n", "u", "l", "l">>, JNull)
              [] OTHER -> ParseFail(i - 1, FALSE)

\* the members of an object from index i (the first one's key is expected there)
ParseMembers(s, i, acc) ==
    IF i > Len(s) THEN ParseFail(Len(s), TRUE)
    ELSE IF s[i] # "\"" THEN ParseFail(i - 1, FALSE)
    ELSE LET k == ParseStringFrom(s, i + 1, <<>>)
             c == Skip(s, k.i, Ws)
             v == ParseValue(s, c + 1)
             d == Skip(s, v.i, Ws)
         IN IF ~k.ok THEN k
            ELSE IF c > Len(s) THEN ParseFail(Len(s), TRUE)
            ELSE IF s[c] # ":" THEN ParseFail(c - 1, FALSE)
            ELSE IF ~v.ok THEN v
            ELSE IF d > Len(s) THEN ParseFail(Len(s), TRUE)
            ELSE IF s[d] = "," THEN ParseMembers(s, Skip(s, d + 1, Ws), SetProp(acc, k.v, v.v))
            ELSE IF s[d] = "}" THEN ParseOk(JObj(SetProp(acc, k.v, v.v)), d + 1)
            ELSE ParseFail(d - 1, FALSE)

\* the elements of an array from index i
ParseElements(s, i, acc) ==
    LET v == ParseValue(s, i)
        d == Skip(s, v.i, Ws)
    IN IF ~v.ok THEN v
       ELSE IF d > Len(s) THEN ParseFail(Len(s), TRUE)
       ELSE IF s[d] = "," THEN ParseElements(s, d + 1, Append(acc, v.v))
       ELSE IF s[d] = "]" THEN ParseOk(JArr(Append(acc, v.v)), d + 1)
       ELSE ParseFail(d - 1, FALSE)

\* JSON.parse(text): a non-string argument is converted to a string first
JSONparse(text) ==
    IF text.t = "undefined" THEN Throw(SyntaxError(0, FALSE))
    ELSE IF text.t = "null" THEN Return(JNull)
    ELSE LET r == ParseValue(text.c, 1)
             j == Skip(text.c, r.i, Ws)
         IN IF ~r.ok THEN Throw(SyntaxError(r.at, r.eof))
            ELSE IF j <= Len(text.c) THEN Throw(SyntaxError(j - 1, FALSE))
            ELSE Return(r.v)

----------------------------------------------------------------------------
(* The DSL parser: getDSLContext and its helpers                            *)

\* code[i] for a 0-based i, as the 1-based index i + 1: undefined past the end
CharAt(s, i) == IF i \in 1..Len(s) THEN s[i] ELSE "undefined"

\* characters matched by the regular expression \s
WsRegex == Ws \cup {"\f"}

\* the number of elements of s that are in C
Count(s, C) == Cardinality({n \in 1..Len(s) : s[n] \in C})

\* partialParse, first loop: the braces and brackets outside string literals
RECURSIVE braceCount(_, _, _)
braceCount(s, i, st) ==
    IF i > Len(s) THEN st
    ELSE IF st.escapeNext THEN braceCount(s, i + 1, [st EXCEPT !.escapeNext = FALSE])
    ELSE IF s[i] = "\\" THEN braceCount(s, i + 1, [st EXCEPT !.escapeNext = TRUE])
    ELSE IF s[i] = "\"" THEN braceCount(s, i + 1, [st EXCEPT !.inString = ~@])
    ELSE IF ~st.inString /\ s[i] \in {"{", "}", "[", "]"}
    THEN braceCount(s, i + 1, [st EXCEPT !.n[s[i]] = @ + 1])
    ELSE braceCount(s, i + 1, st)

\* the number of backslashes that immediately precede index i
escapeCount(s, i) ==
    LET J == {j \in 1..(i - 1) : s[j] # "\\"}
    IN IF J = {} THEN i - 1 ELSE i - 1 - (CHOOSE j \in J : \A k \in J : k <= j)

\* partialParse, second loop (from the end): lastCompletePos
RECURSIVE lastCompletePos(_, _, _, _)
lastCompletePos(s, i, depth, inString) ==
    IF i < 1 THEN Len(s)
    ELSE LET d == IF inString THEN depth
                  ELSE IF s[i] \in {"}", "]"} THEN depth + 1
                  ELSE IF s[i] \in {"{", "["} THEN depth - 1
                  ELSE depth
             q == IF s[i] = "\"" /\ escapeCount(s, i) % 2 = 0 THEN ~inString
                  ELSE inString
         IN IF d = 0 /\ i < Len(s) THEN i ELSE lastCompletePos(s, i - 1, d, q)

Repeat(c, n) == [k \in 1..n |-> c]

partialParse(text) ==
    IF text.t # "string"
    THEN Throw(TypeError("Cannot read properties of " \o text.t \o " (reading 'length')"))
    ELSE LET s == text.c
             cnt == braceCount(s, 1, [inString |-> FALSE, escapeNext |-> FALSE,
                                      n |-> [c \in {"{", "}", "[", "]"} |-> 0]]).n
             cut == SubSeq(s, 1, lastCompletePos(s, Len(s), 0, FALSE))
             openBraces == Count(cut, {"{"})
             closeBraces == Count(cut, {"}"})
             openBrackets == Count(cut, {"["})
             closeBrackets == Count(cut, {"]"})
             truncated ==
                 IF cnt["{"] > cnt["}"] \/ cnt["["] > cnt["]"]
                 THEN cut
                      \o Repeat("}", IF openBraces > closeBraces
                                     THEN openBraces - closeBraces ELSE 0)
                      \o Repeat("]", IF openBrackets > closeBrackets
                                     THEN openBrackets - closeBrackets ELSE 0)
                 ELSE s
             parsed == JSONparse(JText(truncated))
         IN IF parsed.threw THEN Return(JObj(<<>>)) ELSE parsed

\* the state of the character walk as findPathToOffset creates it
WalkInit ==
    [path |-> <<>>, inString |-> FALSE, escapeNext |-> FALSE, currentKey |-> JNull,
     expectingKey |-> TRUE, depth |-> 0]

\* a lookahead that takes the end of the text for a colon
processCharKeyAtEnd(char, state, pos, s) ==
    IF state.escapeNext THEN [state EXCEPT !.escapeNext = FALSE]
    ELSE IF char = "\\" THEN [state EXCEPT !.escapeNext = TRUE]
    ELSE IF char = "\""
    THEN IF state.inString /\ state.currentKey # JNull
         THEN IF state.expectingKey
              THEN LET nextPos == Skip(s, pos + 1, WsRegex)
                   IN IF nextPos > Len(s) \/ s[nextPos] = ":"
                      THEN [state EXCEPT !.inString = FALSE,
                                         !.path = Append(@, state.currentKey.s),
                                         !.expectingKey = FALSE, !.currentKey = JNull]
                      ELSE [state EXCEPT !.inString = FALSE, !.currentKey = JNull]
              ELSE [state EXCEPT !.inString = FALSE]
         ELSE [state EXCEPT !.inString = ~@]
    ELSE IF state.inString
    THEN [state EXCEPT !.currentKey = JStr((IF @ = JNull THEN "" ELSE @.s) \o char)]
    ELSE CASE char = "{" -> [state EXCEPT !.expectingKey = TRUE, !.depth = @ + 1]
           [] char = "}" -> [state EXCEPT !.expectingKey = TRUE, !.depth = @ - 1,
                                          !.path = IF Len(@) > 0
                                                   THEN SubSeq(@, 1, Len(@) - 1) ELSE @]
           [] char = "[" -> [state EXCEPT !.path = Append(@, "[]"),
                                          !.expectingKey = TRUE]
           [] char = "]" -> [state EXCEPT !.expectingKey = FALSE,
                                          !.path = IF Len(@) > 0 /\ @[Len(@)] = "[]"
                                                   THEN SubSeq(@, 1, Len(@) - 1) ELSE @]
           [] char = "," -> [state EXCEPT !.expectingKey = TRUE]
           [] char = ":" -> [state EXCEPT !.expectingKey = FALSE]
           [] OTHER -> state

\* processChar(char, state, pos, code), pos being the 1-based index of char;
\* every segment of the path is a string (a key, or the marker '[]')
processChar(char, state, pos, s) ==
    IF state.escapeNext THEN [state EXCEPT !.escapeNext = FALSE]
    ELSE IF char = "\\" THEN [state EXCEPT !.escapeNext = TRUE]
    ELSE IF char = "\""
    THEN IF state.inString /\ state.currentKey # JNull
         THEN IF state.expectingKey
              THEN LET nextPos == Skip(s, pos + 1, WsRegex)
                   IN IF nextPos <= Len(s) /\ s[nextPos] = ":"
                      THEN [state EXCEPT !.inString = FALSE,
                                         !.path = Append(@, state.currentKey.s),
                                         !.expectingKey = FALSE, !.currentKey = JNull]
                      ELSE [state EXCEPT !.inString = FALSE, !.currentKey = JNull]
              ELSE [state EXCEPT !.inString = FALSE]
         ELSE [state EXCEPT !.inString = ~@]
    ELSE IF state.inString
    THEN [state EXCEPT !.currentKey = JStr((IF @ = JNull THEN "" ELSE @.s) \o char)]
    ELSE CASE char = "{" -> [state EXCEPT !.expectingKey = TRUE, !.depth = @ + 1]
           [] char = "}" -> [state EXCEPT !.expectingKey = TRUE, !.depth = @ - 1,
                                          !.path = IF Len(@) > 0
                                                   THEN SubSeq(@, 1, Len(@) - 1) ELSE @]
           [] char = "[" -> [state EXCEPT !.path = Append(@, "[]"),
                                          !.expectingKey = TRUE]
           [] char = "]" -> [state EXCEPT !.expectingKey = FALSE,
                                          !.path = IF Len(@) > 0 /\ @[Len(@)] = "[]"
                                                   THEN SubSeq(@, 1, Len(@) - 1) ELSE @]
           [] char = "," -> [state EXCEPT !.expectingKey = TRUE]
           [] char = ":" -> [state EXCEPT !.expectingKey = FALSE]
           [] OTHER -> state

\* the walk over code[0..n-1]
RECURSIVE Walk(_, _)
Walk(s, n) ==
    IF n = 0 THEN WalkInit ELSE processChar(CharAt(s, n), Walk(s, n - 1), n, s)

findPathToOffset(ast, text, n) ==
    IF text.t # "string"
    THEN Throw(TypeError("Cannot read properties of " \o text.t
                            \o " (reading 'substring')"))
    ELSE Return(Walk(text.c, n).path)

\* isValidQueryType of the DSL parser
ParserQueryTypes ==
    {"match", "match_phrase", "match_phrase_prefix", "match_bool_prefix",
     "multi_match", "combined_fields", "bool", "boosting", "dis_max",
     "constant_score", "function_score", "script_score", "exists", "ids",
     "prefix", "range", "regexp", "wildcard", "fuzzy", "type", "terms",
     "terms_set", "term", "nested", "has_child", "has_parent", "parent_id",
     "geo_bounding_box", "geo_distance", "geo_polygon", "geo_shape",
     "more_like_this", "script", "simple_query_string", "query_string",
     "percolate", "rank_feature", "distance_feature", "interval"}

getDefaultContext ==
    [path |-> <<>>, location |-> "unknown", queryType |-> JNull, inArray |-> FALSE,
     arrayIndex |-> -1, expecting |-> "key", depth |-> 0, parentKey |-> JNull,
     currentKey |-> JNull, boolClause |-> JUndef]

\* analyzePath, the loop over the segments path[1..n]
RECURSIVE analyzeSegments(_, _)
analyzeSegments(path, n) ==
    IF n = 0 THEN getDefaultContext
    ELSE LET context == analyzeSegments(path, n - 1)
             item == path[n]
             keyed == [context EXCEPT !.path = Append(@, item),
                                      !.parentKey = context.currentKey,
                                      !.currentKey = JStr(item)]
         IN IF item = "[]" THEN [context EXCEPT !.inArray = TRUE]
            ELSE IF item = "query" THEN [keyed EXCEPT !.location = "query"]
            ELSE IF item \in {"aggs", "aggregations"}
            THEN [keyed EXCEPT !.location = "aggs"]
            ELSE IF item = "bool" THEN [keyed EXCEPT !.location = "bool"]
            ELSE IF item \in {"must", "should", "filter", "must_not"}
            THEN [keyed EXCEPT !.location = "bool_clause", !.boolClause = JStr(item)]
            ELSE IF item \in ParserQueryTypes THEN [keyed EXCEPT !.queryType = JStr(item)]
            ELSE keyed

\* the part of s after its last element in C (all of s if it has none)
AfterLast(s, C) ==
    LET J == {j \in 1..Len(s) : s[j] \in C}
    IN IF J = {} THEN s
       ELSE SubSeq(s, (CHOOSE j \in J : \A k \in J : k <= j) + 1, Len(s))

\* String.prototype.trim
Trim(s) ==
    LET J == {j \in 1..Len(s) : s[j] \notin WsRegex}
    IN IF J = {} THEN <<>>
       ELSE SubSeq(s, Least(J), CHOOSE j \in J : \A k \in J : k <= j)

\* the text before the offset: code.substring(0, offset)
Substring0(s, n) == SubSeq(s, 1, IF n > Len(s) THEN Len(s) ELSE n)

\* the choice made on the whole text before the offset, not on its last line
expectingAtWholeText(s, n) ==
    LET currentLine == Substring0(s, n)
        afterColon == AfterLast(currentLine, {":"})
        quotes == Count(afterColon, {"\""})
    IN IF \E j \in 1..Len(currentLine) : currentLine[j] = ":"
       THEN IF quotes % 2 = 1 THEN "value"
            ELSE IF Trim(afterColon) \in {<<>>, <<"{">>, <<"[">>} THEN "key"
            ELSE "value"
       ELSE "key"

\* analyzePath, the choice between key and value
expectingAt(s, n) ==
    LET currentLine == AfterLast(Substring0(s, n), {"\n"})
        afterColon == AfterLast(currentLine, {":"})
        quotes == Count(afterColon, {"\""})
    IN IF \E j \in 1..Len(currentLine) : currentLine[j] = ":"
       THEN IF quotes % 2 = 1 THEN "value"
            ELSE IF Trim(afterColon) \in {<<>>, <<"{">>, <<"[">>} THEN "key"
            ELSE "value"
       ELSE "key"

analyzePath(path, text, n) ==
    [analyzeSegments(path, Len(path)) EXCEPT !.depth = Len(path),
                                             !.expecting = expectingAt(text.c, n)]

\* a getDSLContext without the outer try/catch
getDSLContextNoCatch(text, n) ==
    LET parsed == JSONparse(text)
        ast == IF parsed.threw THEN partialParse(text) ELSE parsed
        path == findPathToOffset(ast.v, text, n)
    IN IF ast.threw THEN ast
       ELSE IF path.threw THEN path
       ELSE Return(analyzePath(path.v, text, n))

\* getDSLContext(code, offset): any exception ends in the default context
getDSLContext(text, n) ==
    LET parsed == JSONparse(text)
        ast == IF parsed.threw THEN partialParse(text) ELSE parsed
        path == findPathToOffset(ast.v, text, n)
    IN IF ast.threw THEN Return(getDefaultContext)
       ELSE IF path.threw THEN Return(getDefaultContext)
       ELSE Return(analyzePath(path.v, text, n))

----------------------------------------------------------------------------
(* The DSL parser on its own: getDSLContext on a text and a cursor offset   *)

\* length of the texts built from every combination of characters
MaxTextLen == 3

\* well-formed documents
\* {"a":1,"b":{}}
DocSiblings ==
    <<"{", "\"", "a", "\"", ":", "1", ",", "\"", "b", "\"", ":", "{", "}", "}">>

\* {"query":{"match":{"user.name":"x"}}}
DocMatch ==
    <<"{", "\"", "q", "u", "e", "r", "y", "\"", ":", "{", "\"", "m", "a", "t", "c",
      "h", "\"", ":", "{", "\"", "u", "s", "e", "r", ".", "n", "a", "m", "e", "\"",
      ":", "\"", "x", "\"", "}", "}", "}">>

\* {"a":[{"b":1},{}]}
DocArray ==
    <<"{", "\"", "a", "\"", ":", "[", "{", "\"", "b", "\"", ":", "1", "}", ",",
      "{", "}", "]", "}">>

\* {"a":"x","b":{"c":2}}
DocStringValue ==
    <<"{", "\"", "a", "\"", ":", "\"", "x", "\"", ",", "\"", "b", "\"", ":", "{",
      "\"", "c", "\"", ":", "2", "}", "}">>

\* {\n "a" : {"b":[1,2]}\n}
DocLines ==
    <<"{", "\n", " ", "\"", "a", "\"", " ", ":", " ", "{", "\"", "b", "\"", ":",
      "[", "1", ",", "2", "]", "}", "\n", "}">>

\* ["x",{"a":2}]
DocRootArray ==
    <<"[", "\"", "x", "\"", ",", "{", "\"", "a", "\"", ":", "2", "}", "]">>

\* {"query":{"bool":{"must":[{"term":{"a":1}}]}}}
DocBoolTerm ==
    <<"{", "\"", "q", "u", "e", "r", "y", "\"", ":", "{", "\"", "b", "o", "o",
      "l", "\"", ":", "{", "\"", "m", "u", "s", "t", "\"", ":", "[", "{", "\"",
      "t", "e", "r", "m", "\"", ":", "{", "\"", "a", "\"", ":", "1", "}", "}",
      "]", "}", "}", "}">>

Docs ==
    {DocSiblings, DocMatch, DocArray, DocStringValue, DocLines, DocRootArray,
     DocBoolTerm}

Alphabet == {"{", "}", "[", "]", "\"", ":", ",", "a", "\\", "\n"}
ShortTexts == UNION {[1..n -> Alphabet] : n \in 0..MaxTextLen}
Prefixes(d) == {SubSeq(d, 1, k) : k \in 0..Len(d)}

\* what getDSLContext is called with: documents, documents cut short, any short
\* text, and a code that is no string
Codes ==
    {JText(t) : t \in UNION {Prefixes(d) : d \in Docs} \cup ShortTexts}
      \cup {JUndef, JNull}

Outcome(fn, r) == [fn |-> fn, threw |-> r.threw, v |-> IF r.threw THEN r.e ELSE r.v]

InitDSL ==
    /\ ServiceInit
    /\ DiagnosticsInit
    /\ code \in Codes
    /\ offset \in 0..(IF code.t = "string" THEN Len(code.c) + 1 ELSE 1)
    /\ currentFields = JObj(<<>>)
    /\ engine = ""
    /\ outcome = NoRet

GetDSLContext ==
    /\ outcome = NoRet
    /\ outcome' = Outcome("getDSLContext", getDSLContext(code, offset))
    /\ UNCHANGED <<cache, pendingRequests, stats, timeout, timers, calls, fetches,
                   recency, quietMs, lastOp, code, offset, currentFields, engine>>
    /\ UNCHANGED diagVars

NextDSL == GetDSLContext

SpecDSL == InitDSL /\ [][NextDSL]_vars

----------------------------------------------------------------------------
(* Claims about the DSL parser (checked under SpecDSL) *)

\* C12: for every text and every cursor offset getDSLContext returns a context
\* record without throwing; when an exception occurs inside, the record is the
\* default one: location unknown, empty path, expecting a key.
C12_NeverThrows ==
    outcome.fn = "getDSLContext"
    => /\ ~outcome.threw
       /\ getDSLContextNoCatch(code, offset).threw
          => /\ outcome.v = getDefaultContext
             /\ outcome.v.location = "unknown"
             /\ outcome.v.path = <<>>
             /\ outcome.v.expecting = "key"

\* an exception occurred inside getDSLContext and the default record came back
C12_Witness ==
    /\ outcome.fn = "getDSLContext"
    /\ getDSLContextNoCatch(code, offset).threw
    /\ outcome.v = getDefaultContext

\* the containers open after s[1..n] of a well-formed s, each with the key of
\* the object member whose value it is (null for the root and array elements)
RECURSIVE OpenContainers(_, _)
OpenContainers(s, n) ==
    IF n = 0
    THEN [stack |-> <<>>, inString |-> FALSE, escaped |-> FALSE, literal |-> "",
          key |-> JNull]
    ELSE LET st == OpenContainers(s, n - 1)
             c == s[n]
             next == Skip(s, n + 1, Ws)
         IN IF st.inString
            THEN IF st.escaped THEN [st EXCEPT !.escaped = FALSE, !.literal = @ \o c]
                 ELSE IF c = "\\" THEN [st EXCEPT !.escaped = TRUE]
                 ELSE IF c = "\""
                 THEN [st EXCEPT !.inString = FALSE,
                                 !.key = IF next <= Len(s) /\ s[next] = ":"
                                         THEN JStr(st.literal) ELSE @]
                 ELSE [st EXCEPT !.literal = @ \o c]
            ELSE IF c = "\"" THEN [st EXCEPT !.inString = TRUE, !.literal = ""]
            ELSE IF c \in {"{", "["}
            THEN [st EXCEPT !.stack =
                     Append(@, [object |-> c = "{",
                                key |-> IF Len(@) > 0 /\ @[Len(@)].object
                                        THEN st.key ELSE JNull])]
            ELSE IF c \in {"}", "]"}
            THEN [st EXCEPT !.stack = SubSeq(@, 1, Len(@) - 1)]
            ELSE st

\* the keys of the members that enclose offset n, from the root down
EnclosingKeys(s, n) ==
    LET keyed == SelectSeq(OpenContainers(s, n).stack, LAMBDA f : f.key # JNull)
    IN [k \in 1..Len(keyed) |-> keyed[k].key.s]

\* offset n of s lies directly inside a container, outside any string literal,
\* where a member or element may start
BetweenMembers(s, n) ==
    LET J == {j \in 1..n : s[j] \notin Ws}
    IN /\ n <= Len(s)
       /\ ~OpenContainers(s, n).inString
       /\ OpenContainers(s, n).stack # <<>>
       /\ J # {}
       /\ s[CHOOSE j \in J : \A k \in J : k <= j] \in {"{", "[", ","}

\* C13: for a well-formed document and a cursor directly inside a container
\* and outside any string literal, the path of the context is exactly the keys
\* of the members that enclose the cursor, from the root down to the container.
C13_PathIsEnclosingKeys ==
    (/\ outcome.fn = "getDSLContext"
     /\ code.t = "string"
     /\ ~JSONparse(code).threw
     /\ BetweenMembers(code.c, offset))
    => outcome.v.path = EnclosingKeys(code.c, offset)

IsPrefix(p, q) == Len(p) <= Len(q) /\ p = SubSeq(q, 1, Len(p))

\* the well-formed documents that the text before the cursor is the start of
DocsCutHere ==
    {d \in Docs : /\ ~JSONparse(JText(d)).threw
                  /\ code.t = "string"
                  /\ offset = Len(code.c)
                  /\ offset <= Len(d)
                  /\ code.c = SubSeq(d, 1, offset)}

\* C14: for a text obtained by cutting a valid document at any offset,
\* getDSLContext with the cursor at the end returns without faulting, and its
\* path is a prefix of the path computed on the whole document at that offset.
C14_TruncationPrefix ==
    outcome.fn = "getDSLContext"
    => \A d \in DocsCutHere :
          /\ ~outcome.threw
          /\ ~getDSLContextNoCatch(code, offset).threw
          /\ IsPrefix(outcome.v.path, getDSLContext(JText(d), offset).v.path)

\* the document was cut right after a key: the key is in the path of the whole
\* document and not in the path of the cut one
C14_Witness ==
    /\ outcome.fn = "getDSLContext"
    /\ \E d \in DocsCutHere :
          /\ offset < Len(d)
          /\ JSONparse(code).threw
          /\ outcome.v.path # getDSLContext(JText(d), offset).v.path
          /\ Len(getDSLContext(JText(d), offset).v.path) >= 2

----------------------------------------------------------------------------
(* The completion provider                                                  *)

\* the labels of the suggestions, by the method that offers them
TopLevelKeys ==
    <<"query", "aggs", "sort", "size", "from", "_source">>
QueryTypeNames ==
    <<"match", "term", "terms", "range", "bool", "exists", "match_phrase",
      "prefix", "wildcard", "multi_match", "nested", "function_score", "dis_max">>
BoolClauseNames ==
    <<"must", "should", "filter", "must_not">>
AggregationNames ==
    <<"terms", "avg", "sum", "max", "min", "stats", "extended_stats",
      "cardinality", "value_count", "filter", "filters", "range", "date_range",
      "date_histogram", "histogram", "nested", "reverse_nested", "top_hits">>
TemplateLabels ==
    <<"match_all", "match query", "term query", "range query", "bool query",
      "multi_match query", "exists query", "terms aggregation", "date_histogram",
      "filter aggregation", "complex query">>

\* the characters of a label or of a field name
Spell(label) ==
    CASE label = "query" -> <<"q", "u", "e", "r", "y">>
      [] label = "aggs" -> <<"a", "g", "g", "s">>
      [] label = "sort" -> <<"s", "o", "r", "t">>
      [] label = "size" -> <<"s", "i", "z", "e">>
      [] label = "from" -> <<"f", "r", "o", "m">>
      [] label = "_source" -> <<"_", "s", "o", "u", "r", "c", "e">>
      [] label = "match" -> <<"m", "a", "t", "c", "h">>
      [] label = "term" -> <<"t", "e", "r", "m">>
      [] label = "terms" -> <<"t", "e", "r", "m", "s">>
      [] label = "range" -> <<"r", "a", "n", "g", "e">>
      [] label = "bool" -> <<"b", "o", "o", "l">>
      [] label = "exists" -> <<"e", "x", "i", "s", "t", "s">>
      [] label = "match_phrase" ->
           <<"m", "a", "t", "c", "h", "_", "p", "h", "r", "a", "s", "e">>
      [] label = "prefix" -> <<"p", "r", "e", "f", "i", "x">>
      [] label = "wildcard" -> <<"w", "i", "l", "d", "c", "a", "r", "d">>
      [] label = "multi_match" ->
           <<"m", "u", "l", "t", "i", "_", "m", "a", "t", "c", "h">>
      [] label = "nested" -> <<"n", "e", "s", "t", "e", "d">>
      [] label = "function_score" ->
           <<"f", "u", "n", "c", "t", "i", "o", "n", "_", "s", "c", "o", "r", "e">>
      [] label = "dis_max" -> <<"d", "i", "s", "_", "m", "a", "x">>
      [] label = "must" -> <<"m", "u", "s", "t">>
      [] label = "should" -> <<"s", "h", "o", "u", "l", "d">>
      [] label = "filter" -> <<"f", "i", "l", "t", "e", "r">>
      [] label = "must_not" -> <<"m", "u", "s", "t", "_", "n", "o", "t">>
      [] label = "avg" -> <<"a", "v", "g">>
      [] label = "sum" -> <<"s", "u", "m">>
      [] label = "max" -> <<"m", "a", "x">>
      [] label = "min" -> <<"m", "i", "n">>
      [] label = "stats" -> <<"s", "t", "a", "t", "s">>
      [] label = "extended_stats" ->
           <<"e", "x", "t", "e", "n", "d", "e", "d", "_", "s", "t", "a", "t", "s">>
      [] label = "cardinality" ->
           <<"c", "a", "r", "d", "i", "n", "a", "l", "i", "t", "y">>
      [] label = "value_count" ->
           <<"v", "a", "l", "u", "e", "_", "c", "o", "u", "n", "t">>
      [] label = "filters" -> <<"f", "i", "l", "t", "e", "r", "s">>
      [] label = "date_range" -> <<"d", "a", "t", "e", "_", "r", "a", "n", "g", "e">>
      [] label = "date_histogram" ->
           <<"d", "a", "t", "e", "_", "h", "i", "s", "t", "o", "g", "r", "a", "m">>
      [] label = "histogram" -> <<"h", "i", "s", "t", "o", "g", "r", "a", "m">>
      [] label = "reverse_nested" ->
           <<"r", "e", "v", "e", "r", "s", "e", "_", "n", "e", "s", "t", "e", "d">>
      [] label = "top_hits" -> <<"t", "o", "p", "_", "h", "i", "t", "s">>
      [] label = "match_all" -> <<"m", "a", "t", "c", "h", "_", "a", "l", "l">>
      [] label = "match query" ->
           <<"m", "a", "t", "c", "h", " ", "q", "u", "e", "r", "y">>
      [] label = "term query" -> <<"t", "e", "r", "m", " ", "q", "u", "e", "r", "y">>
      [] label = "range query" ->
           <<"r", "a", "n", "g", "e", " ", "q", "u", "e", "r", "y">>
      [] label = "bool query" -> <<"b", "o", "o", "l", " ", "q", "u", "e", "r", "y">>
      [] label = "multi_match query" ->
           <<"m", "u", "l", "t", "i", "_", "m", "a", "t", "c", "h", " ", "q", "u", "e", "r", "y">>
      [] label = "exists query" ->
           <<"e", "x", "i", "s", "t", "s", " ", "q", "u", "e", "r", "y">>
      [] label = "terms aggregation" ->
           <<"t", "e", "r", "m", "s", " ", "a", "g", "g", "r", "e", "g", "a", "t", "i", "o", "n">>
      [] label = "filter aggregation" ->
           <<"f", "i", "l", "t", "e", "r", " ", "a", "g", "g", "r", "e", "g", "a", "t", "i", "o", "n">>
      [] label = "complex query" ->
           <<"c", "o", "m", "p", "l", "e", "x", " ", "q", "u", "e", "r", "y">>
      [] label = "or" -> <<"o", "r">>
      [] label = "and" -> <<"a", "n", "d">>
      [] label = "user.name" -> <<"u", "s", "e", "r", ".", "n", "a", "m", "e">>
      [] label = "a" -> <<"a">>

Suggestion(label, kind) == [label |-> label, kind |-> kind]
Suggestions(labels, kind) == [n \in 1..Len(labels) |-> Suggestion(labels[n], kind)]

\* the schemas handed to updateContext: none, the one of Scenario A, one field "a"
FieldInfo(type) == JObj(<<P("type", JStr(type))>>)
Schemas ==
    {JObj(<<>>),
     JObj(<<P("user.name", FieldInfo("text"))>>),
     JObj(<<P("a", FieldInfo("keyword"))>>)}

UpperCase ==
    <<"A", "B", "C", "D", "E", "F", "G", "H", "I", "J", "K", "L", "M", "N", "O", "P",
      "Q", "R", "S", "T", "U", "V", "W", "X", "Y", "Z">>
LowerCase ==
    <<"a", "b", "c", "d", "e", "f", "g", "h", "i", "j", "k", "l", "m", "n", "o", "p",
      "q", "r", "s", "t", "u", "v", "w", "x", "y", "z">>
\* String.prototype.toLowerCase
toLowerCase(s) ==
    [n \in 1..Len(s) |->
        IF \E k \in 1..26 : UpperCase[k] = s[n]
        THEN LowerCase[CHOOSE k \in 1..26 : UpperCase[k] = s[n]]
        ELSE s[n]]

\* characters matched by [\w_]
WordChars ==
    {UpperCase[k] : k \in 1..26} \cup {LowerCase[k] : k \in 1..26} \cup Digits \cup {"_"}

\* extractCurrentWord(lineUntilPosition): after the last quote of the line there
\* is no quote, so the branch for a closed quote is never taken
extractCurrentWord(lineUntilPosition) ==
    IF \E j \in 1..Len(lineUntilPosition) : lineUntilPosition[j] = "\""
    THEN AfterLast(lineUntilPosition, {"\""})
    ELSE LET J == {j \in 1..Len(lineUntilPosition) : lineUntilPosition[j] \notin WordChars}
         IN IF J = {} THEN lineUntilPosition
            ELSE SubSeq(lineUntilPosition, (CHOOSE j \in J : \A k \in J : k <= j) + 1,
                        Len(lineUntilPosition))

\* filterSuggestions(suggestions, currentWord)
filterSuggestions(suggestions, currentWord) ==
    IF currentWord = <<>> THEN suggestions
    ELSE SelectSeq(suggestions,
             LAMBDA x : LET label == toLowerCase(Spell(x.label))
                            lowerWord == toLowerCase(currentWord)
                        IN /\ Len(lowerWord) <= Len(label)
                           /\ SubSeq(label, 1, Len(lowerWord)) = lowerWord)

getQueryTypeSuggestions == Suggestions(QueryTypeNames, "Function")
getAggregationSuggestions == Suggestions(AggregationNames, "Function")
getTemplateSuggestions == Suggestions(TemplateLabels, "Snippet")
getFieldNameSuggestions(fields) == Suggestions(ObjectKeys(fields), "Property")

\* a choice that looks at the query type before the bool clause
getKeySuggestionsTypeFirst(dslContext, fields) ==
    IF dslContext.depth = 0 \/ Len(dslContext.path) = 0
    THEN Suggestions(TopLevelKeys, "Property")
    ELSE IF dslContext.location = "query" /\ Len(dslContext.path) = 1
    THEN getQueryTypeSuggestions
    ELSE IF dslContext.location = "bool" /\ Len(dslContext.path) = 2
    THEN Suggestions(BoolClauseNames, "Property")
    ELSE IF Truthy(dslContext.queryType) THEN getFieldNameSuggestions(fields)
    ELSE IF dslContext.location = "bool_clause" THEN getQueryTypeSuggestions
    ELSE IF dslContext.location = "aggs" THEN getAggregationSuggestions
    ELSE <<>>

getKeySuggestions(dslContext, fields) ==
    IF dslContext.depth = 0 \/ Len(dslContext.path) = 0
    THEN Suggestions(TopLevelKeys, "Property")
    ELSE IF dslContext.location = "query" /\ Len(dslContext.path) = 1
    THEN getQueryTypeSuggestions
    ELSE IF dslContext.location = "bool" /\ Len(dslContext.path) = 2
    THEN Suggestions(BoolClauseNames, "Property")
    ELSE IF dslContext.location = "bool_clause" THEN getQueryTypeSuggestions
    ELSE IF Truthy(dslContext.queryType) THEN getFieldNameSuggestions(fields)
    ELSE IF dslContext.location = "aggs" THEN getAggregationSuggestions
    ELSE <<>>

\* getValueSuggestions: the class defines no method getFieldValueSuggestions,
\* so the call made for a key that is a field of the schema throws
getValueSuggestions(dslContext, fields) ==
    LET operators ==
            IF dslContext.currentKey = JStr("operator")
               /\ dslContext.queryType \in {JStr("match"), JStr("match_phrase")}
            THEN Suggestions(<<"or", "and">>, "Value")
            ELSE <<>>
    IN IF Truthy(dslContext.currentKey) /\ Truthy(Prop(fields, dslContext.currentKey.s))
       THEN Throw(TypeError("this.getFieldValueSuggestions is not a function"))
       ELSE Return(operators)

\* the length below which the templates are offered
TemplateThreshold == 50

\* provideCompletionItems, the context: getDSLContext on the code before the
\* word being typed
completionContext(text, n) ==
    LET lineUntilPosition == AfterLast(Substring0(text.c, n), {"\n"})
        currentWord == extractCurrentWord(lineUntilPosition)
        codeBeforeWord == Substring0(text.c, n - Len(currentWord))
    IN getDSLContext(JText(codeBeforeWord), n - Len(currentWord)).v

\* the suggestions the context asks for: keys, values or none
contextSuggestions(dslContext, fields) ==
    IF dslContext.expecting = "key" THEN Return(getKeySuggestions(dslContext, fields))
    ELSE IF dslContext.expecting = "value" THEN getValueSuggestions(dslContext, fields)
    ELSE Return(<<>>)

\* the rest of provideCompletionItems: templates, filter by the current word,
\* and the range of the current word on every suggestion
completionItems(text, n, byContext) ==
    LET lineUntilPosition == AfterLast(Substring0(text.c, n), {"\n"})
        currentWord == extractCurrentWord(lineUntilPosition)
        column == Len(lineUntilPosition) + 1
        wordRange == [startColumn |-> column - Len(currentWord), endColumn |-> column]
        textBefore == Substring0(text.c, n)
        templates ==
            IF Len(Trim(textBefore)) < TemplateThreshold THEN getTemplateSuggestions
            ELSE <<>>
    IN IF byContext.threw THEN byContext
       ELSE Return([suggestions |-> filterSuggestions(byContext.v \o templates,
                                                      currentWord),
                    range |-> wordRange])

\* provideCompletionItems(model, position), the model holding text and the
\* position being offset n
provideCompletionItems(text, n, fields) ==
    completionItems(text, n, contextSuggestions(completionContext(text, n), fields))

----------------------------------------------------------------------------
(* The completion provider on its own *)

\* {\n"aggs":{\n"by_day":{\n"date_histogram":{"field":"a"}}}}
DocAggsKey ==
    <<"{", "\n", "\"", "a", "g", "g", "s", "\"", ":", "{", "\n", "\"", "b", "y",
      "_", "d", "a", "y", "\"", ":", "{", "\n", "\"", "d", "a", "t", "e", "_", "h",
      "i", "s", "t", "o", "g", "r", "a", "m", "\"", ":", "{", "\"", "f", "i", "e",
      "l", "d", "\"", ":", "\"", "a", "\"", "}", "}", "}", "}">>

\* {"query":{"bool":{"must":[{"term":{\n"a":1}}]}}}
DocBoolLines ==
    <<"{", "\"", "q", "u", "e", "r", "y", "\"", ":", "{", "\"", "b", "o", "o", "l",
      "\"", ":", "{", "\"", "m", "u", "s", "t", "\"", ":", "[", "{", "\"", "t",
      "e", "r", "m", "\"", ":", "{", "\n", "\"", "a", "\"", ":", "1", "}", "}",
      "]", "}", "}", "}">>

\* the documents the completion provider is asked about
CompletionDocs == Docs \cup {DocAggsKey, DocBoolLines}

InitCompletion ==
    /\ ServiceInit
    /\ DiagnosticsInit
    /\ code \in {JText(t) : t \in UNION {Prefixes(d) : d \in CompletionDocs} \cup ShortTexts}
    /\ offset \in 0..Len(code.c)
    /\ currentFields \in Schemas
    /\ engine = ""
    /\ outcome = NoRet

ProvideCompletionItems ==
    /\ outcome = NoRet
    /\ outcome' = Outcome("provideCompletionItems",
                          provideCompletionItems(code, offset, currentFields))
    /\ UNCHANGED <<cache, pendingRequests, stats, timeout, timers, calls, fetches,
                   recency, quietMs, lastOp, code, offset, currentFields, engine>>
    /\ UNCHANGED diagVars

NextCompletion == ProvideCompletionItems

SpecCompletion == InitCompletion /\ [][NextCompletion]_vars

----------------------------------------------------------------------------
(* Claims about the completion provider (checked under SpecCompletion) *)

\* Scenario A: the schema {user.name: {type: text}} and the text
\* {"query":{"match":{"user.name":" with the cursor at its end
ScenarioA ==
    /\ currentFields = JObj(<<P("user.name", FieldInfo("text"))>>)
    /\ code = JText(SubSeq(DocMatch, 1, 32))
    /\ offset = 32

\* C15: in Scenario A completion returns normally, with a context of expecting
\* value, currentKey user.name and queryType match; no field-typed value
\* suggestion is offered and the templates are all offered.
C15_ScenarioA ==
    (outcome.fn = "provideCompletionItems" /\ ScenarioA)
    => /\ completionContext(code, offset).expecting = "value"
       /\ completionContext(code, offset).currentKey = JStr("user.name")
       /\ completionContext(code, offset).queryType = JStr("match")
       /\ ~outcome.threw
       /\ outcome.v.suggestions = getTemplateSuggestions

\* C16: provideCompletionItems never throws: for every text, cursor offset and
\* schema it returns a suggestion list.
C16_CompletionNeverThrows ==
    outcome.fn = "provideCompletionItems" => ~outcome.threw

----------------------------------------------------------------------------
(* JavaScript operations the validator applies to a parsed document          *)

JFunc == [t |-> "function"]

typeof(v) == IF v.t \in {"null", "array"} THEN "object" ELSE v.t
\* typeof v === 'object' && v !== null
IsObject(v) == v.t \in {"object", "array"}

ObjectPrototypeNames ==
    {"constructor", "hasOwnProperty", "isPrototypeOf", "propertyIsEnumerable",
     "toLocaleString", "toString", "valueOf", "__defineGetter__",
     "__defineSetter__", "__lookupGetter__", "__lookupSetter__"}
ArrayPrototypeNames ==
    {"at", "concat", "copyWithin", "entries", "every", "fill", "filter", "find",
     "findIndex", "findLast", "findLastIndex", "flat", "flatMap", "forEach",
     "includes", "indexOf", "join", "keys", "lastIndexOf", "map", "pop", "push",
     "reduce", "reduceRight", "reverse", "shift", "slice", "some", "sort", "splice",
     "unshift", "values"}
StringPrototypeNames ==
    {"at", "charAt", "charCodeAt", "codePointAt", "concat", "endsWith", "includes",
     "indexOf", "lastIndexOf", "localeCompare", "match", "matchAll", "normalize",
     "padEnd", "padStart", "repeat", "replace", "replaceAll", "search", "slice",
     "split", "startsWith", "substring", "toLowerCase", "toUpperCase", "trim",
     "trimEnd", "trimStart"}

\* v[k] for a v that is neither null nor undefined: an own property, else what
\* the prototype of v holds under that name, else undefined
Get(v, k) ==
    CASE v.t = "object" ->
            IF HasProp(v, k) THEN Prop(v, k)
            ELSE IF k \in ObjectPrototypeNames THEN JFunc ELSE JUndef
      [] v.t = "array" ->
            IF \E n \in 1..Len(v.a) : ToString(n - 1) = k
            THEN v.a[CHOOSE n \in 1..Len(v.a) : ToString(n - 1) = k]
            ELSE IF k = "length" THEN JNum(Len(v.a))
            ELSE IF k \in ArrayPrototypeNames \cup ObjectPrototypeNames THEN JFunc
            ELSE JUndef
      [] v.t = "string" ->
            IF k = "length" THEN JNum(Len(v.c))
            ELSE IF k \in StringPrototypeNames \cup ObjectPrototypeNames THEN JFunc
            ELSE JUndef
      [] OTHER -> IF k \in ObjectPrototypeNames THEN JFunc ELSE JUndef

\* the keys a for-in loop (or Object.keys) visits, each with the answer of
\* /^\d+$/.test(key)
IsIndexKey(c) ==
    /\ c # <<>>
    /\ \A j \in 1..Len(c) : c[j] \in Digits
    /\ Len(c) = 1 \/ c[1] # "0"
    /\ Len(c) <= 9

\* the positions of an object's members in the order the engine enumerates
\* them: integer keys ascending, then the other keys as they were inserted
OwnKeyOrder(m) ==
    LET idx == {n \in 1..Len(m) : IsIndexKey(m[n].c)}
        val(n) == DecVal(m[n].c, 1, Len(m[n].c) + 1)
        nth(p) == CHOOSE n \in idx : Cardinality({k \in idx : val(k) < val(n)}) = p - 1
    IN [p \in 1..Cardinality(idx) |-> nth(p)]
       \o SelectSeq([n \in 1..Len(m) |-> n], LAMBDA n : n \notin idx)

ForIn(v) ==
    CASE v.t = "object" ->
            [p \in 1..Len(v.m) |->
                LET member == v.m[OwnKeyOrder(v.m)[p]]
                IN [k |-> member.k,
                    digits |-> member.c # <<>> /\ \A j \in 1..Len(member.c) :
                                                     member.c[j] \in Digits]]
      [] v.t = "array" -> [n \in 1..Len(v.a) |-> [k |-> ToString(n - 1), digits |-> TRUE]]
      [] OTHER -> <<>>

\* String(v), as a template literal and a property key convert a value
RECURSIVE ToStr(_)
RECURSIVE JoinElements(_, _)
ToStr(v) ==
    CASE v.t = "string" -> v.s
      [] v.t = "number" -> ToString(v.n)
      [] v.t = "boolean" -> IF v.b THEN "true" ELSE "false"
      [] v.t = "null" -> "null"
      [] v.t = "undefined" -> "undefined"
      [] v.t = "array" -> JoinElements(v.a, Len(v.a))
      [] v.t = "function" -> "function () { [native code] }"
      [] OTHER -> "[object Object]"
JoinElements(a, n) ==
    IF n = 0 THEN ""
    ELSE (IF n = 1 THEN "" ELSE JoinElements(a, n - 1) \o ",")
         \o (IF a[n].t \in {"null", "undefined"} THEN "" ELSE ToStr(a[n]))

\* list.includes(v) for a list of strings
IncludesStr(list, v) == v.t = "string" /\ v.s \in list

\* the concatenation of a sequence of sequences
RECURSIVE Flatten(_)
Flatten(ss) == IF ss = <<>> THEN <<>> ELSE Head(ss) \o Flatten(Tail(ss))

----------------------------------------------------------------------------
(* ESValidator                                                              *)

\* a finding; a path segment that is an array index is written as a string, and
\* a finding pushed without a path or a position has <<>> and zeros
Finding(severity, message, path) ==
    [severity |-> severity, message |-> message, path |-> path,
     startLineNumber |-> 0, startColumn |-> 0, endLineNumber |-> 0, endColumn |-> 0]

\* the shared list of findings, and whether the check threw
Ok(errors) == [threw |-> FALSE, errors |-> errors]
Fail(errors, e) == [threw |-> TRUE, errors |-> errors, e |-> e]

\* this.currentFields[name]
\* the validator of the diagnostics provider: this.validator
validator == [currentFields |-> currentFields]

Field(this, name) == Get(this.currentFields, name)

NotFound(this, fieldName, path) ==
    Finding("Warning", "Field \"" \o fieldName \o "\" not found in mapping", path)

validTopLevelFields ==
    {"query", "aggs", "aggregations", "sort", "size", "from", "timeout",
     "track_total_hits", "track_scores", "min_score", "source", "_source", "fields",
     "script_fields", "explain", "profile", "highlight", "rescore", "search_after",
     "collapse"}

validateTopLevel(query, errors) ==
    IF ~IsObject(query)
    THEN Append(errors, [Finding("Error", "Root must be an object", <<>>)
                            EXCEPT !.startLineNumber = 1, !.startColumn = 1,
                                   !.endLineNumber = 1, !.endColumn = 10])
    ELSE LET unknown == SelectSeq(ForIn(query), LAMBDA key : key.k \notin validTopLevelFields)
         IN errors \o [n \in 1..Len(unknown) |->
                          Finding("Warning", "Unknown top-level field: \""
                                                \o unknown[n].k \o "\"", <<>>)]

\* isValidQueryType of the validator
ValidatorQueryTypes ==
    ParserQueryTypes \cup
    {"span_term", "span_multi", "span_first", "span_near", "span_or", "span_not",
     "span_containing", "span_within", "span_field_masking"}

validMatchOptions ==
    {"query", "analyzer", "boost", "operator", "minimum_should_match", "fuzziness",
     "prefix_length", "max_expansions", "zero_terms_query", "lenient",
     "cutoff_frequency", "auto_generate_synonyms_phrase_query"}

validateMatchOptions(options, errors, path) ==
    LET keys == ForIn(options)
        found(option) ==
            (IF option \notin validMatchOptions
             THEN <<Finding("Warning", "Unknown match query option: \"" \o option \o "\"",
                            Append(path, option))>>
             ELSE <<>>)
            \o (IF option = "operator" /\ ~IncludesStr({"and", "or"}, Get(options, option))
                THEN <<Finding("Error", "operator must be \"and\" or \"or\", got \""
                                           \o ToStr(Get(options, option)) \o "\"",
                               Append(path, option))>>
                ELSE <<>>)
    IN errors \o Flatten([n \in 1..Len(keys) |-> found(keys[n].k)])

validateMatchQuery(this, matchQuery, errors, path) ==
    IF ~IsObject(matchQuery)
    THEN Append(errors, Finding("Error", "match query must be an object", path))
    ELSE IF Len(ForIn(matchQuery)) = 0
    THEN Append(errors, Finding("Error", "match query requires at least one field", path))
    ELSE LET keys == ForIn(matchQuery)
             found(fieldName) ==
                 (IF Truthy(this.currentFields) /\ ~Truthy(Field(this, fieldName))
                  THEN <<NotFound(this, fieldName, Append(path, fieldName))>>
                  ELSE <<>>)
                 \o (IF IsObject(Get(matchQuery, fieldName))
                     THEN validateMatchOptions(Get(matchQuery, fieldName), <<>>,
                                               Append(path, fieldName))
                     ELSE <<>>)
         IN errors \o Flatten([n \in 1..Len(keys) |-> found(keys[n].k)])

validateTermQuery(this, termQuery, errors, path) ==
    IF ~IsObject(termQuery)
    THEN Append(errors, Finding("Error", "term query must be an object", path))
    ELSE LET keys == ForIn(termQuery)
             found(fieldName) ==
                 (IF ~Truthy(Field(this, fieldName))
                  THEN <<NotFound(this, fieldName, Append(path, fieldName))>>
                  ELSE <<>>)
                 \o (IF typeof(Get(termQuery, fieldName)) = "object"
                        /\ Get(termQuery, fieldName).t # "array"
                     THEN <<Finding("Error", "term query value for \"" \o fieldName
                                       \o "\" should be a simple value or array",
                                    Append(path, fieldName))>>
                     ELSE <<>>)
         IN errors \o Flatten([n \in 1..Len(keys) |-> found(keys[n].k)])

validRangeOperatorsAndBogus ==
    <<"gt", "gte", "lt", "lte", "format", "time_zone", "bogus">>
validRangeOperators == <<"gt", "gte", "lt", "lte", "format", "time_zone">>
RangeFieldTypes == {"integer", "long", "float", "double", "date", "ip"}

validateRangeQuery(this, rangeQuery, errors, path) ==
    IF ~IsObject(rangeQuery)
    THEN Append(errors, Finding("Error", "range query must be an object", path))
    ELSE IF Len(ForIn(rangeQuery)) # 1
    THEN Append(errors, Finding("Error", "range query must have exactly one field", path))
    ELSE LET fieldName == ForIn(rangeQuery)[1].k
             rangeValue == Get(rangeQuery, fieldName)
             operators == ForIn(rangeValue)
             unknown == SelectSeq(operators,
                           LAMBDA op : \A n \in 1..Len(validRangeOperators) :
                                          validRangeOperators[n] # op.k)
             fieldType == Get(Field(this, fieldName), "type")
         IN IF rangeValue.t # "object"
            THEN Append(errors,
                     Finding("Error", "range query value for \"" \o fieldName
                                \o "\" must be an object with range operators",
                             Append(path, fieldName)))
            ELSE IF Len(operators) = 0
            THEN Append(errors,
                     Finding("Error", "range query requires at least one range "
                                \o "operator (gt, gte, lt, lte)", Append(path, fieldName)))
            ELSE errors
                 \o [n \in 1..Len(unknown) |->
                        Finding("Error", "Unknown range operator: \"" \o unknown[n].k
                                   \o "\". Valid operators are: "
                                   \o "gt, gte, lt, lte, format, time_zone",
                                Append(Append(path, fieldName), unknown[n].k))]
                 \o (IF Truthy(Field(this, fieldName)) /\ ~IncludesStr(RangeFieldTypes, fieldType)
                     THEN <<Finding("Warning", "range query is typically used with "
                                       \o "numeric/date fields, got \"" \o ToStr(fieldType)
                                       \o "\"", Append(path, fieldName))>>
                     ELSE <<>>)

validateExistsQuery(this, existsQuery, errors, path) ==
    IF ~IsObject(existsQuery)
    THEN Append(errors, Finding("Error", "exists query must be an object", path))
    ELSE IF ~Truthy(Get(existsQuery, "field")) \/ typeof(Get(existsQuery, "field")) # "string"
    THEN Append(errors,
             Finding("Error", "exists query requires a \"field\" property with a string value",
                     path))
    ELSE IF ~Truthy(Field(this, Get(existsQuery, "field").s))
    THEN Append(errors, NotFound(this, Get(existsQuery, "field").s, Append(path, "field")))
    ELSE errors

\* field.split('^')[0]
BeforeCaret(c) ==
    LET J == {j \in 1..Len(c) : c[j] = "^"}
    IN IF J = {} THEN c ELSE SubSeq(c, 1, Least(J) - 1)

\* a call of a method the value does not have
NotAFunction(what) == TypeError(what \o " is not a function")
\* a property read on null or undefined
CannotRead(v, k) ==
    TypeError("Cannot read properties of " \o ToStr(v) \o " (reading '" \o k \o "')")

validateMultiMatchQuery(this, multiMatchQuery, errors, path) ==
    IF ~IsObject(multiMatchQuery)
    THEN Ok(Append(errors, Finding("Error", "multi_match query must be an object", path)))
    ELSE
    LET fields == Get(multiMatchQuery, "fields")
        errors1 == IF ~Truthy(Get(multiMatchQuery, "query"))
                   THEN Append(errors,
                            Finding("Error", "multi_match query requires \"query\" property",
                                    path))
                   ELSE errors
        \* forEach stops at the first entry that has no split method
        bad == {n \in 1..Len(fields.a) : fields.a[n].t # "string"}
        upto == IF bad = {} THEN Len(fields.a) ELSE Least(bad) - 1
        found(n) ==
            IF ~Truthy(Field(this, Join(BeforeCaret(fields.a[n].c))))
            THEN <<NotFound(this, Join(BeforeCaret(fields.a[n].c)),
                            path \o <<"fields", ToString(n - 1)>>)>>
            ELSE <<>>
        errors2 == errors1 \o Flatten([n \in 1..upto |-> found(n)])
    IN IF ~Truthy(fields)
       THEN Ok(Append(errors1,
                   Finding("Error", "multi_match query requires \"fields\" property (array)",
                           path)))
       ELSE IF fields.t # "array"
       THEN Ok(Append(errors1,
                   Finding("Error", "\"fields\" must be an array", Append(path, "fields"))))
       ELSE IF bad = {} THEN Ok(errors2)
       ELSE IF fields.a[Least(bad)].t = "null"
       THEN Fail(errors2, CannotRead(JNull, "split"))
       ELSE Fail(errors2, NotAFunction("field.split"))

validClauses == {"must", "filter", "should", "must_not"}

RECURSIVE validateQuery(_, _, _, _)
RECURSIVE validateQueryTypes(_, _, _, _, _)
RECURSIVE validateBoolQuery(_, _, _, _)
RECURSIVE validateBoolClauses(_, _, _, _, _)
RECURSIVE validateSubQueries(_, _, _, _)
RECURSIVE validateNestedQuery(_, _, _, _)

validateQuery(this, query, errors, path) ==
    IF ~IsObject(query)
    THEN Ok(Append(errors, Finding("Error", "Query must be an object", path)))
    ELSE validateQueryTypes(this, query, ForIn(query), errors, path)

\* the for-in loop of validateQuery over the query types still to visit
validateQueryTypes(this, query, keys, errors, path) ==
    IF keys = <<>> THEN Ok(errors)
    ELSE
    LET queryType == Head(keys).k
        queryValue == Get(query, queryType)
        here == Append(path, queryType)
        r == IF queryType \notin ValidatorQueryTypes
             THEN Ok(Append(errors,
                         Finding("Error", "Unknown query type: \"" \o queryType \o "\"",
                                 here)))
             ELSE CASE queryType = "bool" -> validateBoolQuery(this, queryValue, errors, here)
                    [] queryType \in {"match", "match_phrase", "match_phrase_prefix"} ->
                         Ok(validateMatchQuery(this, queryValue, errors, here))
                    [] queryType \in {"term", "terms"} ->
                         Ok(validateTermQuery(this, queryValue, errors, here))
                    [] queryType = "range" -> Ok(validateRangeQuery(this, queryValue, errors, here))
                    [] queryType = "exists" -> Ok(validateExistsQuery(this, queryValue, errors, here))
                    [] queryType = "multi_match" ->
                         validateMultiMatchQuery(this, queryValue, errors, here)
                    [] queryType = "nested" -> validateNestedQuery(this, queryValue, errors, here)
                    [] OTHER ->
                         IF ~IsObject(queryValue)
                         THEN Ok(Append(errors,
                                     Finding("Error", "\"" \o queryType
                                                \o "\" query must be an object", here)))
                         ELSE Ok(errors)
    IN IF r.threw THEN r ELSE validateQueryTypes(this, query, Tail(keys), r.errors, path)

validateBoolQuery(this, boolQuery, errors, path) ==
    IF ~IsObject(boolQuery)
    THEN Ok(Append(errors, Finding("Error", "bool query must be an object", path)))
    ELSE validateBoolClauses(this, boolQuery, ForIn(boolQuery), errors, path)

\* the for-in loop of validateBoolQuery over the clauses still to visit
validateBoolClauses(this, boolQuery, keys, errors, path) ==
    IF keys = <<>> THEN Ok(errors)
    ELSE
    LET clause == Head(keys).k
        clauseValue == Get(boolQuery, clause)
        r == IF Head(keys).digits THEN Ok(errors)
             ELSE IF clause \notin validClauses
             THEN Ok(Append(errors,
                         Finding("Error", "Unknown bool clause: \"" \o clause
                                    \o "\". Valid clauses are: must, filter, should, must_not",
                                 Append(path, clause))))
             ELSE IF clauseValue.t # "array"
             THEN Ok(Append(errors,
                         Finding("Error", "\"" \o clause \o "\" must be an array",
                                 Append(path, clause))))
             ELSE validateSubQueries(this, clauseValue.a, errors, Append(path, clause))
    IN IF r.threw THEN r ELSE validateBoolClauses(this, boolQuery, Tail(keys), r.errors, path)

\* clauseValue.forEach(subQuery => this.validateQuery(subQuery, errors, [...path, clause]))
validateSubQueries(this, subQueries, errors, path) ==
    IF subQueries = <<>> THEN Ok(errors)
    ELSE LET r == validateQuery(this, Head(subQueries), errors, path)
         IN IF r.threw THEN r ELSE validateSubQueries(this, Tail(subQueries), r.errors, path)

validateNestedQuery(this, nestedQuery, errors, path) ==
    IF ~IsObject(nestedQuery)
    THEN Ok(Append(errors, Finding("Error", "nested query must be an object", path)))
    ELSE IF ~Truthy(Get(nestedQuery, "path"))
    THEN Ok(Append(errors, Finding("Error", "nested query requires \"path\" property", path)))
    ELSE
    LET r == IF ~Truthy(Get(nestedQuery, "query"))
             THEN Ok(Append(errors,
                         Finding("Error", "nested query requires \"query\" property", path)))
             ELSE validateQuery(this, Get(nestedQuery, "query"), errors, Append(path, "query"))
        nestedField == Field(this, ToStr(Get(nestedQuery, "path")))
    IN IF r.threw THEN r
       ELSE IF Truthy(nestedField) /\ ~Truthy(Get(nestedField, "isNested"))
       THEN Ok(Append(r.errors,
                   Finding("Error", "Field \"" \o ToStr(Get(nestedQuery, "path"))
                              \o "\" is not a nested field", Append(path, "path"))))
       ELSE Ok(r.errors)

\* isValidAggregationType
ValidAggregationTypes ==
    {"avg", "max", "min", "sum", "stats", "extended_stats", "cardinality", "value_count",
     "percentiles", "percentile_ranks", "terms", "filter", "filters", "range",
     "date_range", "ip_range", "histogram", "date_histogram", "geo_bounds",
     "geo_centroid", "nested", "reverse_nested", "top_hits", "bucket_sort", "composite",
     "significant_terms", "significant_text", "sampler", "diversified_sampler"}

RECURSIVE validateAggregations(_, _, _, _)
RECURSIVE validateAggregationNames(_, _, _, _, _)
RECURSIVE validateAggregationConfig(_, _, _, _, _)

validateAggregations(this, aggs, errors, path) ==
    IF ~IsObject(aggs)
    THEN Append(errors, Finding("Error", "aggregations must be an object", path))
    ELSE validateAggregationNames(this, aggs, ForIn(aggs), errors, path)

\* the for-in loop of validateAggregations over the names still to visit
validateAggregationNames(this, aggs, keys, errors, path) ==
    IF keys = <<>> THEN errors
    ELSE
    LET aggName == Head(keys).k
        aggValue == Get(aggs, aggName)
        \* Object.keys(aggValue)[0]
        aggType == IF ForIn(aggValue) = <<>> THEN "undefined" ELSE ForIn(aggValue)[1].k
        known == ForIn(aggValue) # <<>> /\ aggType \in ValidAggregationTypes
        after ==
            IF Head(keys).digits THEN errors
            ELSE IF ~IsObject(aggValue)
            THEN Append(errors,
                     Finding("Error", "Aggregation \"" \o aggName \o "\" must be an object",
                             Append(path, aggName)))
            ELSE IF ~known
            THEN Append(errors,
                     Finding("Error", "Unknown aggregation type: \"" \o aggType \o "\"",
                             path \o <<aggName, aggType>>))
            ELSE validateAggregationConfig(this, aggType, Get(aggValue, aggType), errors,
                                           path \o <<aggName, aggType>>)
    IN validateAggregationNames(this, aggs, Tail(keys), after, path)

validateAggregationConfig(this, aggType, config, errors, path) ==
    IF ~IsObject(config)
    THEN Append(errors,
             Finding("Error", "Aggregation config for \"" \o aggType \o "\" must be an object",
                     path))
    ELSE
    LET field == Get(config, "field")
        errors1 ==
            IF aggType \in {"filter", "filters", "multi_terms", "diversified_sampler"}
            THEN errors
            ELSE IF ~Truthy(field)
            THEN Append(errors,
                     Finding("Warning", "\"" \o aggType
                                \o "\" aggregation typically requires a \"field\" property",
                             path))
            ELSE IF Truthy(this.currentFields) /\ ~Truthy(Field(this, ToStr(field)))
            THEN Append(errors, NotFound(this, ToStr(field), Append(path, "field")))
            ELSE errors
        errors2 ==
            CASE aggType = "date_histogram" ->
                    IF ~Truthy(Get(config, "calendar_interval"))
                       /\ ~Truthy(Get(config, "fixed_interval"))
                    THEN Append(errors1,
                             Finding("Warning", "date_histogram should have "
                                        \o "calendar_interval or fixed_interval", path))
                    ELSE errors1
              [] aggType = "histogram" ->
                    IF ~Truthy(Get(config, "interval"))
                    THEN Append(errors1,
                             Finding("Warning", "histogram requires \"interval\" property",
                                     path))
                    ELSE errors1
              [] OTHER -> errors1
        nestedAggs == IF Truthy(Get(config, "aggs")) THEN Get(config, "aggs")
                      ELSE Get(config, "aggregations")
    IN IF Truthy(nestedAggs) THEN validateAggregations(this, nestedAggs, errors2, path)
       ELSE errors2

\* errors.push({severity, message, path: [...path, ...tail]}): the spread of a
\* path that is not an array throws before anything is pushed
Pushed(errors, severity, message, path, tail) ==
    IF path.t # "array" THEN Fail(errors, TypeError("path is not iterable"))
    ELSE Ok(Append(errors,
                Finding(severity, message,
                        [n \in 1..Len(path.a) |-> ToStr(path.a[n])] \o tail)))

SortNotFound(this, name) == "Sort field \"" \o name \o "\" not found in mapping"

RECURSIVE validateSortFields(_, _, _, _, _, _)
\* the for-in loop of validateSort over the field names of one sort entry
validateSortFields(this, sortItem, keys, index, errors, path) ==
    IF keys = <<>> THEN Ok(errors)
    ELSE
    LET fieldName == Head(keys).k
        order == Get(sortItem, fieldName)
        r1 == IF ~Truthy(Field(this, fieldName)) /\ fieldName \notin {"_score", "_doc"}
              THEN Pushed(errors, "Warning", SortNotFound(this, fieldName), path,
                          <<ToString(index), fieldName>>)
              ELSE Ok(errors)
        r2 == IF r1.threw THEN r1
              ELSE IF typeof(order) # "object" THEN r1
              ELSE IF order.t = "null" THEN Fail(r1.errors, CannotRead(JNull, "order"))
              ELSE IF Truthy(Get(order, "order"))
                      /\ ~IncludesStr({"asc", "desc"}, Get(order, "order"))
              THEN Pushed(r1.errors, "Error",
                          "Sort order must be \"asc\" or \"desc\", got \""
                             \o ToStr(Get(order, "order")) \o "\"",
                          path, <<ToString(index), fieldName, "order">>)
              ELSE r1
    IN IF r2.threw THEN r2
       ELSE validateSortFields(this, sortItem, Tail(keys), index, r2.errors, path)

RECURSIVE validateSortItems(_, _, _, _, _)
\* sort.forEach from the entry at position index (counted from 0)
validateSortItems(this, sort, index, errors, path) ==
    IF index >= Len(sort) THEN Ok(errors)
    ELSE
    LET sortItem == sort[index + 1]
        r == IF typeof(sortItem) = "string"
             THEN IF ~Truthy(Field(this, sortItem.s)) /\ sortItem.s \notin {"_score", "_doc"}
                  THEN Pushed(errors, "Warning", SortNotFound(this, sortItem.s), path,
                              <<ToString(index)>>)
                  ELSE Ok(errors)
             ELSE IF typeof(sortItem) = "object"
             THEN validateSortFields(this, sortItem, ForIn(sortItem), index, errors, path)
             ELSE Ok(errors)
    IN IF r.threw THEN r ELSE validateSortItems(this, sort, index + 1, r.errors, path)

validateSort(this, sort, errors, path) ==
    IF sort.t = "array" THEN validateSortItems(this, sort.a, 0, errors, path) ELSE Ok(errors)

\* the result window above which size and from + size are reported
MaxResultWindow == 10000

\* Number.isInteger(v): the numbers of the model are the integers
IsInteger(v) == v.t = "number"

validateCommonFields(query, errors) ==
    LET size == Get(query, "size")
        from == Get(query, "from")
        errors1 ==
            IF size.t = "undefined" THEN errors
            ELSE IF ~IsInteger(size) \/ size.n < 0
            THEN Append(errors, Finding("Warning", "size must be a non-negative integer", <<>>))
            ELSE IF size.n > MaxResultWindow
            THEN Append(errors,
                     Finding("Info", "Large size value may impact performance. "
                                \o "Consider using pagination.", <<>>))
            ELSE errors
        errors2 ==
            IF from.t # "undefined" /\ (~IsInteger(from) \/ from.n < 0)
            THEN Append(errors1, Finding("Warning", "from must be a non-negative integer", <<>>))
            ELSE errors1
    IN IF IsInteger(from) /\ IsInteger(size) /\ from.n + size.n > MaxResultWindow
       THEN Append(errors2,
                Finding("Info", "from + size exceeds 10000. "
                           \o "Consider using search_after for deep pagination.", <<>>))
       ELSE errors2

\* The engines whose JSON.parse the editor can run on.  V8 names the offset of
\* an unexpected character ("... at position 7") and names none when the text
\* ends too early ("Unexpected end of JSON input"); JavaScriptCore names none.
Engines == {"V8", "JavaScriptCore"}

\* e.message.match(/position (\d+)/)
HasPosition(e) == e.name = "SyntaxError" /\ engine = "V8" /\ ~e.eof

\* e.message; of a syntax error only the part the validator reads is modelled
Message(e) ==
    IF e.name = "TypeError" THEN e.message
    ELSE IF HasPosition(e) THEN "Unexpected token in JSON at position " \o ToString(e.at)
    ELSE IF engine = "V8" THEN "Unexpected end of JSON input"
    ELSE "JSON Parse error"

\* text.substring(0, position).split('\n')
SplitLines(c) ==
    LET N == {j \in 1..Len(c) : c[j] = "\n"}
        cuts == [n \in 0..(Cardinality(N) + 1) |->
                    IF n = 0 THEN 0
                    ELSE IF n = Cardinality(N) + 1 THEN Len(c) + 1
                    ELSE CHOOSE j \in N : Cardinality({k \in N : k < j}) = n - 1]
    IN [n \in 1..(Cardinality(N) + 1) |-> SubSeq(c, cuts[n - 1] + 1, cuts[n] - 1)]

getErrorPositionFirstLine(text, position) ==
    [lineNumber |-> 1, column |-> position + 1]

getErrorPosition(text, position) ==
    LET lines == SplitLines(Substring0(text.c, position))
    IN [lineNumber |-> Len(lines), column |-> Len(lines[Len(lines)]) + 1]

\* 3. the query part: if (query.query) this.validateQuery(query.query, errors, ['query'])
validateQueryPart(this, query, errors) ==
    IF query.t \in {"null", "undefined"} THEN Fail(errors, CannotRead(query, "query"))
    ELSE IF Truthy(Get(query, "query"))
    THEN validateQuery(this, Get(query, "query"), errors, <<"query">>)
    ELSE Ok(errors)

\* query.aggs || query.aggregations
AggsOf(query) ==
    IF Truthy(Get(query, "aggs")) THEN Get(query, "aggs") ELSE Get(query, "aggregations")

\* 4. the aggregations, unless an earlier part threw
validateAggsPart(this, query, r) ==
    IF r.threw THEN r
    ELSE IF Truthy(AggsOf(query))
    THEN Ok(validateAggregations(this, AggsOf(query), r.errors, <<"aggs">>))
    ELSE r

\* 5. the sort, called without a path, unless an earlier part threw
validateSortPart(this, query, r) ==
    IF r.threw THEN r
    ELSE IF Truthy(Get(query, "sort")) THEN validateSort(this, Get(query, "sort"), r.errors, JUndef)
    ELSE r

\* the common fields left unchecked
validateCommonPartSkipped(query, r) == r

\* 6. the common fields, unless an earlier part threw
validateCommonPart(query, r) ==
    IF r.threw THEN r ELSE Ok(validateCommonFields(query, r.errors))

\* the statements of the try block after a successful JSON.parse
validateParsed(this, parsed) ==
    IF parsed.threw THEN Fail(<<>>, parsed.e)
    ELSE validateCommonPart(parsed.v,
             validateSortPart(this, parsed.v,
                 validateAggsPart(this, parsed.v,
                     validateQueryPart(this, parsed.v, validateTopLevel(parsed.v, <<>>)))))

\* the try block of validate: the findings pushed so far and what was thrown
validateTry(this, dslText) == validateParsed(this, JSONparse(dslText))

\* the finding the catch block pushes
SyntaxFinding(e, at) ==
    [Finding("Error", "JSON syntax error: " \o Message(e), <<>>)
        EXCEPT !.startLineNumber = at.lineNumber, !.startColumn = at.column,
               !.endLineNumber = at.lineNumber, !.endColumn = at.column + 1]

\* the catch block of validate, and its return
validateCatch(dslText, r) ==
    IF ~r.threw THEN Return(r.errors)
    ELSE IF dslText.t # "string" THEN Throw(CannotRead(dslText, "substring"))
    ELSE Return(Append(r.errors,
                    SyntaxFinding(r.e, getErrorPosition(dslText,
                                           IF HasPosition(r.e) THEN r.e.at ELSE 0))))

\* what the try block yields when nothing catches
Uncaught(r) == IF r.threw THEN Throw(r.e) ELSE Return(r.errors)

validateNoCatch(this, dslText) == Uncaught(validateTry(this, dslText))

validate(this, dslText) == validateCatch(dslText, validateTry(this, dslText))

----------------------------------------------------------------------------
(* The validator applied to one text under one schema                        *)

\* {"sort":["nofield"],"size":50000}
DocSortSize ==
    <<"{", "\"", "s", "o", "r", "t", "\"", ":", "[", "\"", "n", "o", "f", "i", "e", "l",
      "d", "\"", "]", ",", "\"", "s", "i", "z", "e", "\"", ":", "5", "0", "0", "0", "0",
      "}">>

\* {"size":50000,"from":1,"x":1}
DocPaging ==
    <<"{", "\"", "s", "i", "z", "e", "\"", ":", "5", "0", "0", "0", "0", ",", "\"", "f",
      "r", "o", "m", "\"", ":", "1", ",", "\"", "x", "\"", ":", "1", "}">>

\* {"query":{"multi_match":{"query":"q","fields":["a^2",1]}},"from":-1}
DocMultiMatch ==
    <<"{", "\"", "q", "u", "e", "r", "y", "\"", ":", "{", "\"", "m", "u", "l", "t", "i",
      "_", "m", "a", "t", "c", "h", "\"", ":", "{", "\"", "q", "u", "e", "r", "y", "\"",
      ":", "\"", "q", "\"", ",", "\"", "f", "i", "e", "l", "d", "s", "\"", ":", "[",
      "\"", "a", "^", "2", "\"", ",", "1", "]", "}", "}", ",", "\"", "f", "r", "o", "m",
      "\"", ":", "-", "1", "}">>

\* {"query":{"bool":{"must":[{"match":{"b":{"operator":"xor"}}},{"term":{"a":null}}],"nope":1}}}
DocBool ==
    <<"{", "\"", "q", "u", "e", "r", "y", "\"", ":", "{", "\"", "b", "o", "o", "l", "\"",
      ":", "{", "\"", "m", "u", "s", "t", "\"", ":", "[", "{", "\"", "m", "a", "t", "c",
      "h", "\"", ":", "{", "\"", "b", "\"", ":", "{", "\"", "o", "p", "e", "r", "a", "t",
      "o", "r", "\"", ":", "\"", "x", "o", "r", "\"", "}", "}", "}", ",", "{", "\"", "t",
      "e", "r", "m", "\"", ":", "{", "\"", "a", "\"", ":", "n", "u", "l", "l", "}", "}",
      "]", ",", "\"", "n", "o", "p", "e", "\"", ":", "1", "}", "}", "}">>

\* {"query":{"range":{"a":{"gt":1,"bad":2}}},"aggs":{"g":{"terms":{"field":"zz"},"aggs":{"h":{"histogram":{}}}}}}
DocAggs ==
    <<"{", "\"", "q", "u", "e", "r", "y", "\"", ":", "{", "\"", "r", "a", "n", "g", "e",
      "\"", ":", "{", "\"", "a", "\"", ":", "{", "\"", "g", "t", "\"", ":", "1", ",",
      "\"", "b", "a", "d", "\"", ":", "2", "}", "}", "}", ",", "\"", "a", "g", "g", "s",
      "\"", ":", "{", "\"", "g", "\"", ":", "{", "\"", "t", "e", "r", "m", "s", "\"",
      ":", "{", "\"", "f", "i", "e", "l", "d", "\"", ":", "\"", "z", "z", "\"", "}", ",",
      "\"", "a", "g", "g", "s", "\"", ":", "{", "\"", "h", "\"", ":", "{", "\"", "h",
      "i", "s", "t", "o", "g", "r", "a", "m", "\"", ":", "{", "}", "}", "}", "}", "}",
      "}">>

\* {"query":{"exists":{"field":"constructor"}},"sort":[{"a":{"order":"up"}},"_score"]}
DocExists ==
    <<"{", "\"", "q", "u", "e", "r", "y", "\"", ":", "{", "\"", "e", "x", "i", "s", "t",
      "s", "\"", ":", "{", "\"", "f", "i", "e", "l", "d", "\"", ":", "\"", "c", "o", "n",
      "s", "t", "r", "u", "c", "t", "o", "r", "\"", "}", "}", ",", "\"", "s", "o", "r",
      "t", "\"", ":", "[", "{", "\"", "a", "\"", ":", "{", "\"", "o", "r", "d", "e", "r",
      "\"", ":", "\"", "u", "p", "\"", "}", "}", ",", "\"", "_", "s", "c", "o", "r", "e",
      "\"", "]", "}">>

\* {\n "query": {"nested":{"path":"a","query":{"match_all":{}}}},\n "sort": [{"a":null}]\n}
DocNested ==
    <<"{", "\n", " ", "\"", "q", "u", "e", "r", "y", "\"", ":", " ", "{", "\"", "n", "e",
      "s", "t", "e", "d", "\"", ":", "{", "\"", "p", "a", "t", "h", "\"", ":", "\"", "a",
      "\"", ",", "\"", "q", "u", "e", "r", "y", "\"", ":", "{", "\"", "m", "a", "t", "c",
      "h", "_", "a", "l", "l", "\"", ":", "{", "}", "}", "}", "}", ",", "\n", " ", "\"",
      "s", "o", "r", "t", "\"", ":", " ", "[", "{", "\"", "a", "\"", ":", "n", "u", "l",
      "l", "}", "]", "\n", "}">>

\* null
DocNull ==
    <<"n", "u", "l", "l">>

\* 7
DocNumber ==
    <<"7">>

\* {"size":1,\n "from":}
DocBadToken ==
    <<"{", "\"", "s", "i", "z", "e", "\"", ":", "1", ",", "\n", " ", "\"", "f", "r", "o",
      "m", "\"", ":", "}">>

\* {"query":{"range":{"age":{"gte":5,"bogus":1}}}}
DocScenarioB ==
    <<"{", "\"", "q", "u", "e", "r", "y", "\"", ":", "{", "\"", "r", "a", "n", "g",
      "e", "\"", ":", "{", "\"", "a", "g", "e", "\"", ":", "{", "\"", "g", "t",
      "e", "\"", ":", "5", ",", "\"", "b", "o", "g", "u", "s", "\"", ":", "1", "}",
      "}", "}", "}">>

\* {"query":{"range":{"a":{"lt":1,"x":2,"y":3}}}}
DocRangeTwo ==
    <<"{", "\"", "q", "u", "e", "r", "y", "\"", ":", "{", "\"", "r", "a", "n", "g",
      "e", "\"", ":", "{", "\"", "a", "\"", ":", "{", "\"", "l", "t", "\"", ":",
      "1", ",", "\"", "x", "\"", ":", "2", ",", "\"", "y", "\"", ":", "3", "}",
      "}", "}", "}">>

\* {"query":{"bool":{"shoulda":[]}}}
DocScenarioC ==
    <<"{", "\"", "q", "u", "e", "r", "y", "\"", ":", "{", "\"", "b", "o", "o", "l",
      "\"", ":", "{", "\"", "s", "h", "o", "u", "l", "d", "a", "\"", ":", "[", "]",
      "}", "}", "}">>

\* {"query":{"bool":{"must":[{"bool":{"nope":[{"x":1}],"7":[]}}]}}}
DocBoolDeep ==
    <<"{", "\"", "q", "u", "e", "r", "y", "\"", ":", "{", "\"", "b", "o", "o", "l",
      "\"", ":", "{", "\"", "m", "u", "s", "t", "\"", ":", "[", "{", "\"", "b",
      "o", "o", "l", "\"", ":", "{", "\"", "n", "o", "p", "e", "\"", ":", "[", "{",
      "\"", "x", "\"", ":", "1", "}", "]", ",", "\"", "7", "\"", ":", "[", "]",
      "}", "}", "]", "}", "}", "}">>

\* {"size": 50000, "from": 0}
DocScenarioD ==
    <<"{", "\"", "s", "i", "z", "e", "\"", ":", " ", "5", "0", "0", "0", "0", ",",
      " ", "\"", "f", "r", "o", "m", "\"", ":", " ", "0", "}">>

ValidatorDocs ==
    {DocSortSize, DocPaging, DocMultiMatch, DocBool, DocAggs,
     DocExists, DocNested, DocNull, DocNumber, DocBadToken,
     DocScenarioB, DocRangeTwo, DocScenarioC, DocBoolDeep, DocScenarioD}

\* the schemas validate runs under: those of the completion provider and one
\* with a numeric field
ValidatorSchemas == Schemas \cup {JObj(<<P("age", FieldInfo("integer"))>>)}

\* what validate can be handed: the documents, every truncation of them, every
\* short text, and the two values that are no string
ValidatorTexts ==
    {JText(t) : t \in UNION {Prefixes(d) : d \in ValidatorDocs} \cup ShortTexts}
    \cup {JUndef, JNull}

InitValidate ==
    /\ ServiceInit
    /\ DiagnosticsInit
    /\ code \in ValidatorTexts
    /\ offset = 0
    /\ currentFields \in ValidatorSchemas
    /\ engine \in Engines
    /\ outcome = NoRet

Validate ==
    /\ outcome.fn = ""
    /\ outcome' = Outcome("validate", validate(validator, code))
    /\ UNCHANGED <<cache, pendingRequests, stats, timeout, timers, calls, fetches,
                   recency, quietMs, lastOp, code, offset, currentFields, engine>>
    /\ UNCHANGED diagVars

NextValidate == Validate

SpecValidate == InitValidate /\ [][NextValidate]_vars

----------------------------------------------------------------------------
(* Claims about validate                                                    *)

Severities == {"Error", "Warning", "Info"}

\* the text is a string that JSON.parse accepts, and what it parses to
Parses == code.t = "string" /\ ~JSONparse(code).threw
ParseFails == code.t = "string" /\ JSONparse(code).threw
ParsedRoot == JSONparse(code).v

\* C17: validate never raises for a text that is a string: whatever the text
\* (JSON of any root type, or no JSON at all) and whatever the schema, it
\* returns a list of findings.
C17_ValidateNeverThrows ==
    (outcome.fn = "validate" /\ code.t = "string") =>
        /\ ~outcome.threw
        /\ \A n \in 1..Len(outcome.v) : outcome.v[n].severity \in Severities

\* a check of a parsed document threw a TypeError and validate returned
C17_Witness ==
    /\ outcome.fn = "validate"
    /\ Parses
    /\ validateTry(validator, code).threw
    /\ validateTry(validator, code).e.name = "TypeError"
    /\ ~outcome.threw
    /\ Len(outcome.v) >= 1

\* the offset the parser's message names, 0 when it names none
ReportedOffset ==
    IF HasPosition(JSONparse(code).e) THEN JSONparse(code).e.at ELSE 0
\* the positions of the newlines among the first off characters of the text
NewlinesBefore(off) == {j \in 1..off : j <= Len(code.c) /\ code.c[j] = "\n"}
LastNewlineBefore(off) ==
    IF NewlinesBefore(off) = {} THEN 0
    ELSE CHOOSE j \in NewlinesBefore(off) : \A k \in NewlinesBefore(off) : k <= j

\* C18: for a text that JSON.parse rejects, validate returns exactly one
\* finding, an error, whose line is the number of newlines before the offset
\* the parser reported plus 1 and whose column is the distance from the start
\* of that line plus 1 (offset 0, line 1 column 1, when the parser's message
\* names no offset); no other check adds a finding.
C18_SingleSyntaxFinding ==
    (outcome.fn = "validate" /\ ParseFails) =>
        /\ ~outcome.threw
        /\ Len(outcome.v) = 1
        /\ outcome.v[1].severity = "Error"
        /\ outcome.v[1].startLineNumber = Cardinality(NewlinesBefore(ReportedOffset)) + 1
        /\ outcome.v[1].startColumn = ReportedOffset - LastNewlineBefore(ReportedOffset) + 1

\* a rejected text whose reported offset lies after a newline
C18_Witness ==
    /\ outcome.fn = "validate"
    /\ ParseFails
    /\ HasPosition(JSONparse(code).e)
    /\ NewlinesBefore(ReportedOffset) # {}
    /\ Len(outcome.v) = 1
    /\ outcome.v[1].startLineNumber > 1

\* every finding of the list is in the result of validate
Reported(findings) ==
    \A n \in 1..Len(findings) : \E k \in 1..Len(outcome.v) : outcome.v[k] = findings[n]

\* C19: for a text that parses to an object, the result of validate holds the
\* findings of the top-level check, of the query check, of the aggregation
\* check, of the sort check and of the size/from check, each as the check
\* yields them on its own: no finding and no fault of one check removes the
\* findings of a later one.
C19_ChecksIndependent ==
    (outcome.fn = "validate" /\ Parses /\ IsObject(ParsedRoot)) =>
        /\ ~outcome.threw
        /\ Reported(validateTopLevel(ParsedRoot, <<>>))
        /\ Truthy(Get(ParsedRoot, "query")) =>
              Reported(validateQuery(validator, Get(ParsedRoot, "query"), <<>>, <<"query">>).errors)
        /\ Truthy(Get(ParsedRoot, "aggs")) =>
              Reported(validateAggregations(validator, Get(ParsedRoot, "aggs"), <<>>, <<"aggs">>))
        /\ Truthy(Get(ParsedRoot, "sort")) =>
              Reported(validateSort(validator, Get(ParsedRoot, "sort"), <<>>, JUndef).errors)
        /\ Reported(validateCommonFields(ParsedRoot, <<>>))

\* the names an object's keys give, and the strings among an array's entries
KeyNames(v) == IF v.t = "object" THEN {v.m[n].k : n \in 1..Len(v.m)} ELSE {}
StringEntries(v) ==
    IF v.t = "array" THEN {v.a[n].c : n \in {k \in 1..Len(v.a) : v.a[k].t = "string"}}
    ELSE {}

\* the field names the sort entries of the document refer to
SortReferences ==
    LET sort == Get(ParsedRoot, "sort")
    IN IF sort.t # "array" THEN {}
       ELSE ({Join(c) : c \in StringEntries(sort)}
             \cup UNION {KeyNames(sort.a[n]) : n \in 1..Len(sort.a)})
            \ {"_score", "_doc"}

\* the field names the query of the document refers to at its first level
QueryReferences ==
    LET query == Get(ParsedRoot, "query")
        of(queryType) == IF query.t = "object" THEN Get(query, queryType) ELSE JUndef
        exists == of("exists")
        multi == of("multi_match")
    IN UNION {KeyNames(of(queryType)) :
                 queryType \in {"match", "match_phrase", "match_phrase_prefix",
                                "term", "terms"}}
       \cup (IF exists.t = "object" /\ Get(exists, "field").t = "string"
                /\ Get(exists, "field").c # <<>>
             THEN {Get(exists, "field").s} ELSE {})
       \cup (IF multi.t = "object"
             THEN {Join(BeforeCaret(c)) : c \in StringEntries(Get(multi, "fields"))}
             ELSE {})

\* the field a configuration object names
FieldOf(config) ==
    IF config.t = "object" /\ Get(config, "field").t = "string"
       /\ Get(config, "field").c # <<>>
    THEN {Get(config, "field").s} ELSE {}

\* the field names the aggregations of the document name as their field
AggregationReferences ==
    LET aggs == IF Truthy(Get(ParsedRoot, "aggs")) THEN Get(ParsedRoot, "aggs")
                ELSE Get(ParsedRoot, "aggregations")
        named(n) ==
            LET aggValue == aggs.m[n].v
            IN IF /\ ~ForIn(aggs)[n].digits
                  /\ aggValue.t = "object"
                  /\ aggValue.m # <<>>
                  /\ aggValue.m[1].k \in ValidAggregationTypes
                        \ {"filter", "filters", "diversified_sampler"}
               THEN FieldOf(aggValue.m[1].v)
               ELSE {}
    IN IF aggs.t # "object" THEN {} ELSE UNION {named(n) : n \in 1..Len(aggs.m)}

\* a warning that names the field as not found in the mapping
Warned(name) ==
    \E n \in 1..Len(outcome.v) :
        /\ outcome.v[n].severity = "Warning"
        /\ outcome.v[n].message \in {NotFound(validator, name, <<>>).message, SortNotFound(validator, name)}

\* C20: every field name the document refers to (in match, term/terms, exists,
\* multi_match, an aggregation's field, or a sort entry other than _score and
\* _doc) that the schema does not hold is reported by a warning, and its
\* absence is never reported by an error.
C20_AbsentFieldWarns ==
    (outcome.fn = "validate" /\ Parses /\ IsObject(ParsedRoot)) =>
        \A name \in SortReferences \cup QueryReferences \cup AggregationReferences :
            ~HasProp(currentFields, name) =>
                /\ ~outcome.threw
                /\ Warned(name)
                /\ \A n \in 1..Len(outcome.v) :
                      outcome.v[n].severity = "Error" =>
                          outcome.v[n].message \notin
                              {NotFound(validator, name, <<>>).message, SortNotFound(validator, name)}

\* the findings of the result with one severity
Of(severity) == SelectSeq(outcome.v, LAMBDA f : f.severity = severity)

\* the document is {"query": {"range": rangeQuery}} and nothing else
OnlyRange ==
    /\ Parses
    /\ KeyNames(ParsedRoot) = {"query"}
    /\ KeyNames(Get(ParsedRoot, "query")) = {"range"}
RangeClause == Get(Get(ParsedRoot, "query"), "range")
\* the one field of the range clause and the object it is bound to
RangeField == RangeClause.m[1].k
RangeValue == RangeClause.m[1].v
RangeOperators == {"gt", "gte", "lt", "lte", "format", "time_zone"}
OneFieldRange ==
    /\ OnlyRange
    /\ RangeClause.t = "object"
    /\ Len(RangeClause.m) = 1
    /\ RangeValue.t = "object"
    /\ RangeValue.m # <<>>

\* C21: a range clause with exactly one field bound to a non-empty object
\* yields one error for each key of that object outside gt, gte, lt, lte,
\* format, time_zone and no other error, and no warning when the schema type of
\* the field is integer, long, float, double, date or ip.
C21_RangeOperators ==
    (outcome.fn = "validate" /\ OneFieldRange) =>
        /\ ~outcome.threw
        /\ \A op \in KeyNames(RangeValue) \ RangeOperators :
              Cardinality({n \in 1..Len(outcome.v) :
                              /\ outcome.v[n].severity = "Error"
                              /\ outcome.v[n].path = <<"query", "range", RangeField, op>>})
                 = 1
        /\ Len(Of("Error")) = Cardinality(KeyNames(RangeValue) \ RangeOperators)
        /\ (/\ HasProp(currentFields, RangeField)
            /\ Get(Prop(currentFields, RangeField), "type").t = "string"
            /\ Get(Prop(currentFields, RangeField), "type").s
                  \in {"integer", "long", "float", "double", "date", "ip"})
           => Of("Warning") = <<>>

\* Scenario B: {"query":{"range":{"age":{"gte":5,"bogus":1}}}} under a schema
\* where age is an integer gave one error, for bogus, and no warning
C21_Witness ==
    /\ outcome.fn = "validate"
    /\ code = JText(DocScenarioB)
    /\ currentFields = JObj(<<P("age", FieldInfo("integer"))>>)
    /\ Len(outcome.v) = 1
    /\ outcome.v[1].severity = "Error"
    /\ outcome.v[1].path = <<"query", "range", "age", "bogus">>

\* the bool objects that validateQuery reaches from a query by descending
\* through the must/filter/should/must_not arrays, each with its path
RECURSIVE ReachableBools(_, _)
ReachableBools(query, path) ==
    IF ~(query.t = "object" /\ HasProp(query, "bool") /\ Prop(query, "bool").t = "object")
    THEN <<>>
    ELSE LET bool == Prop(query, "bool")
             below(n) ==
                 IF bool.m[n].k \in {"must", "filter", "should", "must_not"}
                    /\ bool.m[n].v.t = "array"
                 THEN Flatten([j \in 1..Len(bool.m[n].v.a) |->
                                  ReachableBools(bool.m[n].v.a[j],
                                                 path \o <<"bool", bool.m[n].k>>)])
                 ELSE <<>>
         IN <<[bool |-> bool, path |-> Append(path, "bool")]>>
            \o Flatten([n \in 1..Len(bool.m) |-> below(n)])

DocumentBools ==
    IF Parses /\ ParsedRoot.t = "object" /\ HasProp(ParsedRoot, "query")
    THEN ReachableBools(Prop(ParsedRoot, "query"), <<"query">>)
    ELSE <<>>

\* how many of the reached bool objects at the path have the key
BoolsWithKey(path, key) ==
    Cardinality({n \in 1..Len(DocumentBools) :
                    DocumentBools[n].path = path /\ HasProp(DocumentBools[n].bool, key)})

\* C22: every key other than must, filter, should, must_not of every bool
\* object reached from query yields exactly one error naming it as an unknown
\* bool clause, and nothing below that key is validated.
C22_UnknownBoolClause ==
    outcome.fn = "validate" =>
        \A n \in 1..Len(DocumentBools) :
            \A key \in KeyNames(DocumentBools[n].bool) \ {"must", "filter", "should", "must_not"} :
                LET here == Append(DocumentBools[n].path, key)
                IN /\ ~outcome.threw
                   /\ Cardinality({k \in 1..Len(outcome.v) :
                                      /\ outcome.v[k].severity = "Error"
                                      /\ outcome.v[k].path = here
                                      /\ outcome.v[k].message =
                                            "Unknown bool clause: \"" \o key
                                            \o "\". Valid clauses are: must, filter, should, must_not"})
                         = BoolsWithKey(DocumentBools[n].path, key)
                   /\ \A k \in 1..Len(outcome.v) :
                         ~(Len(outcome.v[k].path) > Len(here)
                           /\ IsPrefix(here, outcome.v[k].path))

\* Scenario C: {"query":{"bool":{"shoulda":[]}}} gave exactly one finding, the
\* error naming shoulda
C22_ScenarioC ==
    /\ outcome.fn = "validate"
    /\ code = JText(DocScenarioC)
    /\ Len(outcome.v) = 1
    /\ outcome.v[1].severity = "Error"
    /\ outcome.v[1].path = <<"query", "bool", "shoulda">>

ScenarioD == code = JText(DocScenarioD)
LargeSize == "Large size value may impact performance. Consider using pagination."
DeepPaging ==
    "from + size exceeds 10000. Consider using search_after for deep pagination."

\* C23: in Scenario D ({"size": 50000, "from": 0}, no query) the result holds
\* exactly one info finding, the one about the large size, and no error.
C23_ScenarioD ==
    (outcome.fn = "validate" /\ ScenarioD) =>
        /\ ~outcome.threw
        /\ Len(Of("Info")) = 1
        /\ Of("Info")[1].message = LargeSize
        /\ Of("Error") = <<>>

\* C23 as the code has it: in Scenario D the result is exactly two info
\* findings, the one about the large size and then the one about from + size
\* exceeding 10000, with no error and no warning.
C23_ScenarioDTwoInfos ==
    (outcome.fn = "validate" /\ ScenarioD) =>
        /\ ~outcome.threw
        /\ Len(outcome.v) = 2
        /\ outcome.v[1].severity = "Info" /\ outcome.v[1].message = LargeSize
        /\ outcome.v[2].severity = "Info" /\ outcome.v[2].message = DeepPaging

C23_Witness ==
    /\ outcome.fn = "validate"
    /\ ScenarioD
    /\ Len(outcome.v) = 2
    /\ Of("Error") = <<>>

----------------------------------------------------------------------------
(* Claims about the merged suggestion list                                  *)

\* C24: the list that provideCompletionItems returns never holds two
\* suggestions with the same label.
C24_NoDuplicateLabels ==
    (outcome.fn = "provideCompletionItems" /\ ~outcome.threw) =>
        \A i, j \in 1..Len(outcome.v.suggestions) :
            outcome.v.suggestions[i].label = outcome.v.suggestions[j].label => i = j

----------------------------------------------------------------------------
(* MappingParser.getFieldType                                               *)

\* fieldName.split('.'): the parts, as character sequences
SplitDots(c) ==
    LET D == {j \in 1..Len(c) : c[j] = "."}
        cut(n) == IF n = 0 THEN 0
                  ELSE IF n = Cardinality(D) + 1 THEN Len(c) + 1
                  ELSE CHOOSE j \in D : Cardinality({k \in D : k < j}) = n - 1
    IN [n \in 1..(Cardinality(D) + 1) |-> SubSeq(c, cut(n - 1) + 1, cut(n) - 1)]

\* parts.slice(0, i).join('.')
RECURSIVE JoinDots(_, _)
JoinDots(parts, i) ==
    IF i = 0 THEN ""
    ELSE IF i = 1 THEN Join(parts[1])
    ELSE JoinDots(parts, i - 1) \o "." \o Join(parts[i])

\* the loop of getFieldType from i down to 1
RECURSIVE getFieldTypeFrom(_, _, _)
getFieldTypeFrom(fields, parts, i) ==
    IF i <= 0 THEN JNull
    ELSE IF Truthy(Get(fields, JoinDots(parts, i))) THEN Get(fields, JoinDots(parts, i))
    ELSE getFieldTypeFrom(fields, parts, i - 1)

getFieldType(fields, fieldName) ==
    IF Truthy(Get(fields, Join(fieldName.c))) THEN Get(fields, Join(fieldName.c))
    ELSE getFieldTypeFrom(fields, SplitDots(fieldName.c), Len(SplitDots(fieldName.c)))

\* the longest field name drawn letter by letter
MaxNameLen == 5
NameAlphabet == {"a", "b", "c", "x", "."}
\* constructor, constructor.x
NameConstructor ==
    <<"c", "o", "n", "s", "t", "r", "u", "c", "t", "o", "r">>
NameConstructorX == NameConstructor \o <<".", "x">>
FieldNames ==
    UNION {[1..n -> NameAlphabet] : n \in 0..MaxNameLen}
    \cup {NameConstructor, NameConstructorX}

\* the registries: empty, {a.b}, {a, a.b.c}
Registries ==
    {JObj(<<>>),
     JObj(<<P("a.b", FieldInfo("text"))>>),
     JObj(<<P("a", FieldInfo("object")), P("a.b.c", FieldInfo("keyword"))>>)}

InitResolve ==
    /\ ServiceInit
    /\ DiagnosticsInit
    /\ code \in {JText(t) : t \in FieldNames}
    /\ offset = 0
    /\ currentFields \in Registries
    /\ engine = ""
    /\ outcome = NoRet

GetFieldType ==
    /\ outcome.fn = ""
    /\ outcome' = Outcome("getFieldType", Return(getFieldType(currentFields, code)))
    /\ UNCHANGED <<cache, pendingRequests, stats, timeout, timers, calls, fetches,
                   recency, quietMs, lastOp, code, offset, currentFields, engine>>
    /\ UNCHANGED diagVars

NextResolve == GetFieldType

SpecResolve == InitResolve /\ [][NextResolve]_vars

\* the names got from the field name by stripping one or more trailing
\* dot-segments and held by the registry
StoredAncestors ==
    {j \in 1..Len(code.c) :
        code.c[j] = "." /\ HasProp(currentFields, Join(SubSeq(code.c, 1, j - 1)))}

\* C25: getFieldType returns the entry stored at the field name when there is
\* one, else the entry of the longest stored name got by stripping trailing
\* dot-segments, else none.
C25_Resolve ==
    outcome.fn = "getFieldType" =>
        /\ ~outcome.threw
        /\ outcome.v =
              IF HasProp(currentFields, Join(code.c)) THEN Prop(currentFields, Join(code.c))
              ELSE IF StoredAncestors # {}
              THEN Prop(currentFields,
                        Join(SubSeq(code.c, 1,
                                    (CHOOSE j \in StoredAncestors :
                                        \A k \in StoredAncestors : k <= j) - 1)))
              ELSE JNull

\* P6: under the registry {a.b} the name a.b.c resolved to the entry of a.b
C25_P6 ==
    /\ outcome.fn = "getFieldType"
    /\ currentFields = JObj(<<P("a.b", FieldInfo("text"))>>)
    /\ code = JText(<<"a", ".", "b", ".", "c">>)
    /\ outcome.v = FieldInfo("text")

----------------------------------------------------------------------------
(* ESDiagnosticsProvider: validate and validateDebounced on one model       *)

\* number of validate and validateDebounced calls in one behaviour
MaxPasses == 3

\* {}
DocEmpty == <<"{", "}">>

\* the texts the model takes while it is edited
DiagnosticsTexts ==
    {JText(t) : t \in {DocEmpty, DocScenarioB, DocScenarioC, DocScenarioD, DocBadToken}}

\* the fields argument of the two calls
DiagnosticsFields ==
    {JUndef, JObj(<<>>), JObj(<<P("age", FieldInfo("integer"))>>)}

\* a || 1
OrOne(a) == IF a = 0 THEN 1 ELSE a

\* errors.map(error => ({...})) of validate
Marker(error) ==
    [severity |-> error.severity,
     message |-> error.message,
     startLineNumber |-> OrOne(error.startLineNumber),
     startColumn |-> OrOne(error.startColumn),
     endLineNumber |-> OrOne(IF error.endLineNumber # 0 THEN error.endLineNumber
                             ELSE error.startLineNumber),
     endColumn |-> OrOne(IF error.endColumn # 0 THEN error.endColumn
                         ELSE error.startColumn)]

\* what a pass leaves on the model: the markers of the findings, or the empty
\* list set before the validator ran when the validator threw
Published(r) ==
    IF r.threw THEN <<>> ELSE [i \in 1..Len(r.v) |-> Marker(r.v[i])]

\* ESValidator.updateFields
updateFields(fields) == IF Truthy(fields) THEN fields ELSE JObj(<<>>)

\* ESDiagnosticsProvider.validate(model, indexName, fields)
ValidatePass(fields) ==
    /\ UNCHANGED <<code, engine>>
    /\ currentFields' = updateFields(fields)
    /\ markers' = Published(validate([currentFields |-> updateFields(fields)], code))
    /\ lastPass' = [n |-> lastPass.n + 1, text |-> code, fields |-> fields]

\* validateDebounced that leaves the timer set before armed
validateDebouncedKeeping(armed, timer, id, fields) ==
    armed \cup {[id |-> id, fields |-> fields]}

\* the timers validateDebounced leaves armed: the one it sets, and no longer
\* the one it set before
validateDebounced(armed, timer, id, fields) ==
    (IF timer # 0 THEN clearTimeout(armed, timer) ELSE armed)
    \cup {[id |-> id, fields |-> fields]}

\* as the constructor leaves the provider and the model, under any text
InitDiagnostics ==
    /\ ServiceInit
    /\ DiagnosticsInit
    /\ code \in DiagnosticsTexts
    /\ offset = 0
    /\ currentFields = JObj(<<>>)
    /\ engine \in Engines
    /\ outcome = NoRet

\* the user edits the model
SetValue ==
    /\ \E text \in DiagnosticsTexts : text # code /\ code' = text
    /\ UNCHANGED <<cache, pendingRequests, stats, timeout, timers, calls, fetches,
                   recency, quietMs, lastOp, offset, currentFields, engine, outcome>>
    /\ UNCHANGED diagVars

\* a direct call of validate
ValidateNow ==
    /\ lastPass.n + Len(debounced) < MaxPasses
    /\ \E fields \in DiagnosticsFields : ValidatePass(fields)
    /\ UNCHANGED <<cache, pendingRequests, stats, timeout, timers, calls, fetches,
                   recency, quietMs, lastOp, offset, outcome>>
    /\ UNCHANGED <<debounceTimer, armedPasses, debounced>>

\* validateDebounced(model, indexName, fields, delay): the timer set is armed
\* until it fires or is cleared
ValidateDebounced ==
    /\ lastPass.n + Len(debounced) < MaxPasses
    /\ \E fields \in DiagnosticsFields :
          armedPasses' =
              validateDebounced(armedPasses, debounceTimer, Len(debounced) + 1, fields)
    /\ debounceTimer' = Len(debounced) + 1
    /\ debounced' =
          Append([i \in 1..Len(debounced) |->
                     [debounced[i] EXCEPT !.superseded =
                         @ \/ \E t \in armedPasses : t.id = i]],
                 [superseded |-> FALSE, ran |-> FALSE])
    /\ UNCHANGED <<cache, pendingRequests, stats, timeout, timers, calls, fetches,
                   recency, quietMs, lastOp, code, offset, currentFields, engine, outcome>>
    /\ UNCHANGED <<markers, lastPass>>

\* the delay of an armed timer has passed: its callback runs validate
DebounceFires ==
    /\ \E t \in armedPasses :
          /\ armedPasses' = armedPasses \ {t}
          /\ debounced' = [debounced EXCEPT ![t.id].ran = TRUE]
          /\ ValidatePass(t.fields)
    /\ UNCHANGED <<cache, pendingRequests, stats, timeout, timers, calls, fetches,
                   recency, quietMs, lastOp, offset, outcome>>
    /\ UNCHANGED debounceTimer

NextDiagnostics ==
    \/ SetValue
    \/ ValidateNow
    \/ ValidateDebounced
    \/ DebounceFires

SpecDiagnostics == InitDiagnostics /\ [][NextDiagnostics]_vars

\* C26: the markers of the model are those of the findings of the pass
\* executed last, which are the findings of validate on that pass' text under
\* that pass' schema, whatever passes ran before; and a validateDebounced call
\* followed by another one before its timer fired never executes.
C26_LastPassOnly ==
    /\ lastPass.n = 0 => markers = <<>>
    /\ lastPass.n > 0 =>
          /\ currentFields = updateFields(lastPass.fields)
          /\ markers = Published(validate(validator, lastPass.text))
    /\ \A i \in 1..Len(debounced) : ~(debounced[i].superseded /\ debounced[i].ran)
    /\ Cardinality(armedPasses) <= 1

\* after a direct pass, a burst of two validateDebounced calls of which the
\* second ran, on the range document under the schema that holds its field:
\* the one marker is that of the unknown operator
C26_Witness ==
    /\ Len(debounced) = 2
    /\ debounced[1].superseded
    /\ debounced[2].ran
    /\ lastPass.n = 2
    /\ lastPass.text = JText(DocScenarioB)
    /\ lastPass.fields = JObj(<<P("age", FieldInfo("integer"))>>)
    /\ Len(markers) = 1
    /\ markers[1].severity = "Error"
    /\ markers[1].startLineNumber = 1

----------------------------------------------------------------------------
(* Claims about the character walk and the context record                   *)

\* the walk has just read, at the offset, the closing quote of a string
\* literal where a key is expected, and a colon follows after white space
ClosesKey ==
    /\ code.t = "string"
    /\ offset \in 1..Len(code.c)
    /\ code.c[offset] = "\""
    /\ Walk(code.c, offset - 1).inString
    /\ ~Walk(code.c, offset - 1).escapeNext
    /\ Walk(code.c, offset - 1).expectingKey
    /\ CharAt(code.c, Skip(code.c, offset + 1, WsRegex)) = ":"

\* the position of the quote that opened the string literal closed at the offset
OpeningQuote ==
    CHOOSE q \in 1..(offset - 1) :
        /\ code.c[q] = "\""
        /\ ~Walk(code.c, q - 1).inString
        /\ ~Walk(code.c, q - 1).escapeNext
        /\ \A k \in q..(offset - 1) : Walk(code.c, k).inString

\* the content of that string literal
KeyLiteral == Join(SubSeq(code.c, OpeningQuote + 1, offset - 1))

\* C27: when the walk closes a string literal in key position that a colon
\* follows, the segment it pushes on the path is the content of that literal,
\* whatever string literals came before.
C27_PushedKeyIsLiteral ==
    (outcome.fn = "getDSLContext" /\ ClosesKey) =>
        /\ Walk(code.c, offset).path = Append(Walk(code.c, offset - 1).path, KeyLiteral)
        /\ outcome.v.currentKey = JStr(KeyLiteral)

\* the first key of a document is pushed as it is written
C27_FirstKey ==
    /\ outcome.fn = "getDSLContext"
    /\ ClosesKey
    /\ KeyLiteral = "query"
    /\ Walk(code.c, offset).path = <<"query">>

\* C28: after the walk has read a whole well-formed document, the path stack
\* is empty.
C28_PathEmptyAtEnd ==
    (outcome.fn = "getDSLContext" /\ Parses /\ offset = Len(code.c)) =>
        /\ Walk(code.c, offset).path = <<>>
        /\ outcome.v.path = <<>>

\* the positions of the record's path that hold the name of a query type
KnownSegments ==
    {i \in 1..Len(outcome.v.path) : outcome.v.path[i] \in ParserQueryTypes}

\* C29: the queryType of the record is the last segment of its path that names
\* a query type, bool included, and none exactly when no segment names one.
C29_QueryTypeIsLastKnown ==
    (outcome.fn = "getDSLContext" /\ ~outcome.threw) =>
        outcome.v.queryType =
            IF KnownSegments = {} THEN JNull
            ELSE JStr(outcome.v.path[CHOOSE i \in KnownSegments :
                                        \A j \in KnownSegments : j <= i])

\* a term query inside a bool clause: the record names term
C29_TermInBool ==
    /\ outcome.fn = "getDSLContext"
    /\ outcome.v.path = <<"query", "bool", "must", "term">>
    /\ outcome.v.queryType = JStr("term")

\* C30: the depth of the record is the length of its path, inside arrays too.
C30_DepthIsPathLength ==
    (outcome.fn = "getDSLContext" /\ ~outcome.threw) =>
        outcome.v.depth = Len(outcome.v.path)

\* the positions of the text before the offset, and those of them on the
\* cursor's line: the ones after the last line feed
BeforeOffset == 1..(IF offset > Len(code.c) THEN Len(code.c) ELSE offset)
OnCursorLine ==
    {j \in BeforeOffset : \A k \in BeforeOffset : code.c[k] = "\n" => k < j}

\* the positions of the cursor's line after its last colon
AfterLineColon ==
    {j \in OnCursorLine : \A k \in OnCursorLine : code.c[k] = ":" => k < j}

\* what stands after the last colon is white space around at most one opening
\* brace or bracket
OpensOrBlank ==
    /\ \A j \in AfterLineColon : code.c[j] \in WsRegex \cup {"{", "["}
    /\ Cardinality({j \in AfterLineColon : code.c[j] \in {"{", "["}}) <= 1

\* C31: expecting is got from the cursor's line up to the offset alone: key
\* when the line has no colon, value when an odd number of quotes follows its
\* last colon, key when only white space or one opening brace or bracket
\* follows it, value otherwise.
C31_ExpectingFromLine ==
    (outcome.fn = "getDSLContext" /\ code.t = "string") =>
        outcome.v.expecting =
            IF \A j \in OnCursorLine : code.c[j] # ":" THEN "key"
            ELSE IF Cardinality({j \in AfterLineColon : code.c[j] = "\""}) % 2 = 1
            THEN "value"
            ELSE IF OpensOrBlank THEN "key"
            ELSE "value"

\* the cursor stands on a line without a colon below a line that ends after a
\* member's value
C31_Witness ==
    /\ outcome.fn = "getDSLContext"
    /\ code = JText(DocLines)
    /\ offset = Len(DocLines)
    /\ outcome.v.expecting = "key"

\* C32: the record depends only on the characters before the offset: a text
\* and the same text cut at the offset give the same record there, so any two
\* texts that agree before the offset do.
C32_PrefixDetermines ==
    (outcome.fn = "getDSLContext" /\ code.t = "string") =>
        outcome.v = getDSLContext(JText(Substring0(code.c, offset)), offset).v

\* away from the closing quote of a string literal the record of a document
\* and of its cut agree
C32_InsideDocument ==
    /\ outcome.fn = "getDSLContext"
    /\ code = JText(DocMatch)
    /\ offset = 19
    /\ outcome.v.path = <<"query", "match">>
    /\ outcome.v = getDSLContext(JText(Substring0(code.c, offset)), offset).v

----------------------------------------------------------------------------
(* Claims about the choice of the key suggestions                           *)

\* the context the completion is made in
CompletionContext == completionContext(code, offset)

\* the rules of the choice, in their order: when a rule applies, and the
\* labels it gives
KeyRules(context) ==
    <<[when |-> context.path = <<>>,
       gives |-> <<"query", "aggs", "sort", "size", "from", "_source">>],
      [when |-> context.location = "query" /\ Len(context.path) = 1,
       gives |-> QueryTypeNames],
      [when |-> context.location = "bool" /\ Len(context.path) = 2,
       gives |-> <<"must", "should", "filter", "must_not">>],
      [when |-> context.location = "bool_clause",
       gives |-> QueryTypeNames],
      [when |-> context.queryType # JNull,
       gives |-> ObjectKeys(currentFields)],
      [when |-> context.location = "aggs",
       gives |-> AggregationNames],
      [when |-> TRUE, gives |-> <<>>]>>

\* the first rule that applies
FirstRule(rules) == Least({n \in 1..Len(rules) : rules[n].when})
Labels(suggestions) == [n \in 1..Len(suggestions) |-> suggestions[n].label]

\* the key suggestions are those of the rule, and the completion returns them
\* merged with the templates and filtered by the current word
ChosenBy(context, rule) ==
    context.expecting = "key" =>
        /\ Labels(getKeySuggestions(context, currentFields)) = rule.gives
        /\ ~outcome.threw
        /\ Labels(outcome.v.suggestions)
              = Labels(completionItems(code, offset,
                           Return(Suggestions(rule.gives, "Property"))).v.suggestions)

FirstRuleChooses(context, rules) == ChosenBy(context, rules[FirstRule(rules)])

\* C33: where a key is expected the key suggestions are those of the first rule
\* that applies, and what the completion returns is that one set merged with
\* the templates and filtered by the current word.
C33_FirstRuleChooses ==
    (outcome.fn = "provideCompletionItems" /\ code.t = "string") =>
        FirstRuleChooses(CompletionContext, KeyRules(CompletionContext))

\* on a new line inside a term query of a bool clause, under a schema with a
\* field: the rule of the bool clause applies before that of the query type,
\* and the query types are offered with the templates
C33_Witness ==
    /\ outcome.fn = "provideCompletionItems"
    /\ code = JText(SubSeq(DocBoolLines, 1, 36))
    /\ offset = 36
    /\ currentFields = JObj(<<P("a", FieldInfo("keyword"))>>)
    /\ CompletionContext.expecting = "key"
    /\ CompletionContext.location = "bool_clause"
    /\ CompletionContext.queryType = JStr("term")
    /\ FirstRule(KeyRules(CompletionContext)) = 4
    /\ Labels(outcome.v.suggestions) = QueryTypeNames \o TemplateLabels

----------------------------------------------------------------------------
(* Claims about failed fetches, clearCache and the counters                 *)

\* the fetches that wrote their key into the cache
Succeeded(key) == {f \in Fetches : fetches[f].key = key /\ fetches[f].cached}

\* the call just issued follows an earlier call for its key, finds no call
\* outstanding, and no fetch for the key has succeeded
RetriesAfterFailure ==
    /\ lastOp.op = "fetchMapping"
    /\ calls # <<>>
    /\ calls[Len(calls)].during = {}
    /\ \E c \in 1..(Len(calls) - 1) : calls[c].key = calls[Len(calls)].key
    /\ Succeeded(calls[Len(calls)].key) = {}

\* C34: a fetch that failed or was superseded writes no cache entry (every
\* cached key was written by a fetch that succeeded); a later call for the key
\* with no other call outstanding is a miss that schedules a new fetch; and
\* the step in which a fetch succeeds leaves its key cached.
C34_FailureLeavesNoEntry ==
    /\ \A k \in MapKeys(cache) : Succeeded(k) # {}
    /\ RetriesAfterFailure =>
          /\ calls[Len(calls)].kind = "scheduled"
          /\ stats.cacheMisses >= 1
          /\ \E t \in timers : /\ t.id = Len(calls)
                               /\ t.args.cacheKey = calls[Len(calls)].key
    /\ (lastOp.op = "_fetchMapping" /\ lastOp.wrote) => MapHas(cache, lastOp.key)

\* the fetch of the first call failed, the second call for the same key was
\* issued after the first had resolved, and its fetch has just cached the key
C34_Witness ==
    /\ Len(calls) = 2
    /\ calls[1].key = calls[2].key
    /\ calls[2].during = {}
    /\ calls[2].kind = "scheduled"
    /\ Len(fetches) = 2
    /\ fetches[1].by = 1 /\ fetches[1].status = "done" /\ ~fetches[1].cached
    /\ fetches[2].by = 2 /\ fetches[2].cached
    /\ fetches[1].after = 1
    /\ lastOp.op = "_fetchMapping" /\ lastOp.wrote
    /\ MapHas(cache, calls[2].key)

\* no call of fetchMapping has been counted since the counters were last
\* reset: every call counts a hit or a miss (lines 352-377)
NoCallSinceClear == stats.cacheHits = 0 /\ stats.cacheMisses = 0

\* C35: after clearCache, until the next call of fetchMapping, the cache stays
\* empty and fetchCount stays 0: a fetch that was scheduled or in flight
\* before the clear neither writes an entry nor counts afterwards.
C35_ClearStaysClear ==
    NoCallSinceClear => (MapKeys(cache) = {} /\ stats.fetchCount = 0)

\* C36: in every reachable state fetchCount is at most cacheMisses.
C36_FetchesAtMostMisses == stats.fetchCount <= stats.cacheMisses

----------------------------------------------------------------------------
(* Claims about syntax-error findings and the suggested names               *)

\* the finding's message is the one validate's catch-clause writes
ReportsSyntaxError(finding) ==
    /\ Len(finding.message) >= Len("JSON syntax error: ")
    /\ SubSeq(finding.message, 1, Len("JSON syntax error: ")) = "JSON syntax error: "

\* C37: validate returns a finding that reports a JSON syntax error only if
\* the text fails to parse: for a text that JSON.parse accepts, whatever its
\* root (null, a number, a string, an array, an object with a sort section),
\* no finding of the result reports a syntax error.
C37_SyntaxErrorOnlyIfUnparsed ==
    (outcome.fn = "validate" /\ Parses /\ ~outcome.threw) =>
        \A n \in 1..Len(outcome.v) : ~ReportsSyntaxError(outcome.v[n])

\* QUERY_TEMPLATES.matchAll.insertText, what accepting the suggestion match_all
\* puts into an empty document
matchAllInsertText ==
    <<"{", "\n", " ", " ", "\"", "q", "u", "e", "r", "y", "\"", ":", " ", "{",
      "\n", " ", " ", " ", " ", "\"", "m", "a", "t", "c", "h", "_", "a", "l", "l",
      "\"", ":", " ", "{", "}", "\n", " ", " ", "}", "\n", "}">>

\* the finding says that a query type or an aggregation type is unknown
UnknownType(finding) ==
    \E said \in {"Unknown query type: ", "Unknown aggregation type: "} :
        /\ Len(finding.message) >= Len(said)
        /\ SubSeq(finding.message, 1, Len(said)) = said

\* the name is known where the suggestion puts it: as an aggregation type to
\* the validator, as a query type to the validator and to the parser
KnownWhereOffered(label, location) ==
    IF location = "aggs" THEN label \in ValidAggregationTypes
    ELSE label \in ValidatorQueryTypes /\ label \in ParserQueryTypes

SuggestedAreKnown(suggestions, location, fields) ==
    \A n \in 1..Len(suggestions) :
        /\ suggestions[n].kind = "Function" =>
               KnownWhereOffered(suggestions[n].label, location)
        /\ (suggestions[n] = Suggestion("match_all", "Snippet") /\ code.c = <<>>) =>
               LET found == validate([currentFields |-> fields],
                                     JText(matchAllInsertText)).v
               IN \A k \in 1..Len(found) : ~UnknownType(found[k])

\* C38: every query-type name that completion suggests is known to the
\* validator and to the parser, every aggregation-type name it suggests is
\* known to the validator, and accepting a suggestion that names a query type
\* yields no finding that the type is unknown.
C38_SuggestedNamesAreKnown ==
    (outcome.fn = "provideCompletionItems" /\ ~outcome.threw) =>
        SuggestedAreKnown(outcome.v.suggestions,
                          completionContext(code, offset).location, currentFields)

\* the names of the two lists alone: as far as they go they are all known
SuggestedListsAreKnown ==
    /\ \A n \in 1..Len(QueryTypeNames) : KnownWhereOffered(QueryTypeNames[n], "query")
    /\ \A n \in 1..Len(AggregationNames) : KnownWhereOffered(AggregationNames[n], "aggs")

====
